---- MODULE Spec2Model ----
(***************************************************************************)
(* Indexed directory write/compaction pipeline and its reader              *)
(* (deltafs plfsio): WriteBuffer, TableLogger, DirLogger and Dir of        *)
(* src/libdeltafs/deltafs_plfsio_internal.cc, with the LogSink/LogSource   *)
(* of deltafs_plfsio_xio.h.                                                *)
(*                                                                         *)
(* Byte strings are sequences of naturals below 256.  Sizes are counted in *)
(* bytes; a log is kept as the sequence of the extents written to it, each *)
(* with the offset it was appended at.                                     *)
(***************************************************************************)
EXTENDS Naturals, Integers, Sequences, FiniteSets, TLC

(***************************************************************************)
(* Bounds of the model.                                                    *)
(***************************************************************************)
\* total number of Add/Flush calls issued by the producers
MaxOps == 3
\* total number of operations issued by the direct table logger driver
MaxTLOps == 5
\* calls of the table logger when it is driven to its caps
MaxCapOps == 8
\* total number of Dir::Read calls
MaxReads == 1
\* largest bf_bits_per_key a BloomBlock is built with
MaxBitsPerKey == 64

(***************************************************************************)
(* Format constants.                                                       *)
(***************************************************************************)
kBlockTrailerSize == 5
kMaxTablesPerEpoch == 3
kMaxEpoches == 3
kFooterEncodeLength == 32
kDataBlkRestartInt == 16
kNonDataBlkRestartInt == 1

NULL == "NULL"
OK == "OK"

Max(a, b) == IF a >= b THEN a ELSE b
Min(a, b) == IF a <= b THEN a ELSE b

RECURSIVE SumSeq(_)
SumSeq(s) == IF s = <<>> THEN 0 ELSE Head(s) + SumSeq(Tail(s))

(***************************************************************************)
(* Bytewise comparator.                                                    *)
(***************************************************************************)
RECURSIVE KeyLess(_, _)
KeyLess(a, b) ==
  IF b = <<>> THEN FALSE
  ELSE IF a = <<>> THEN TRUE
  ELSE IF a[1] < b[1] THEN TRUE
  ELSE IF a[1] > b[1] THEN FALSE
  ELSE KeyLess(Tail(a), Tail(b))

KeyLeq(a, b) == a = b \/ KeyLess(a, b)

\* length of the common prefix of a and b
RECURSIVE DiffIndex(_, _)
DiffIndex(a, b) ==
  IF a = <<>> \/ b = <<>> THEN 0
  ELSE IF a[1] # b[1] THEN 0
  ELSE 1 + DiffIndex(Tail(a), Tail(b))

FindShortestSeparator(start, limit) ==
  LET d == DiffIndex(start, limit)
  IN IF d >= Min(Len(start), Len(limit)) THEN start
     ELSE IF start[d + 1] < 255 /\ start[d + 1] + 1 < limit[d + 1]
          THEN Append(SubSeq(start, 1, d), start[d + 1] + 1)
          ELSE start

\* index of the first byte that is not 0xff, 0 when there is none
FirstNonFF(key) ==
  IF \E i \in 1..Len(key) : key[i] # 255
  THEN CHOOSE i \in 1..Len(key) : key[i] # 255 /\ \A j \in 1..(i - 1) : key[j] = 255
  ELSE 0

FindShortSuccessor(key) ==
  LET i == FirstNonFF(key)
  IN IF i = 0 THEN key ELSE Append(SubSeq(key, 1, i - 1), key[i] + 1)

(***************************************************************************)
(* Encoded sizes.                                                          *)
(***************************************************************************)
VarintLength(v) == IF v < 128 THEN 1 ELSE IF v < 16384 THEN 2 ELSE 3

\* PutLengthPrefixedSlice(key) + PutLengthPrefixedSlice(value)
EntryBytes(e) == VarintLength(Len(e.key)) + Len(e.key) + VarintLength(Len(e.value)) + Len(e.value)

RECURSIVE EntriesBytes(_)
EntriesBytes(s) == IF s = <<>> THEN 0 ELSE EntryBytes(Head(s)) + EntriesBytes(Tail(s))

\* an entry of a block: shared, non_shared and value_length varints, key, value
BlockEntryBytes(klen, vlen) == 3 + klen + vlen

RestartBytes(n, interval) == 4 * (IF n = 0 THEN 1 ELSE ((n - 1) \div interval) + 1) + 4

RECURSIVE DataEntriesBytes(_)
DataEntriesBytes(s) ==
  IF s = <<>> THEN 0
  ELSE BlockEntryBytes(Len(Head(s).key), Len(Head(s).value)) + DataEntriesBytes(Tail(s))

BlockHandleBytes(h) == VarintLength(h.offset) + VarintLength(h.size)

RECURSIVE IndexEntriesBytes(_)
IndexEntriesBytes(s) ==
  IF s = <<>> THEN 0
  ELSE BlockEntryBytes(Len(Head(s).key), BlockHandleBytes(Head(s))) + IndexEntriesBytes(Tail(s))

TableHandleBytes(h) ==
  VarintLength(h.offset) + VarintLength(h.size)
  + VarintLength(h.filter_offset) + VarintLength(h.filter_size)
  + 1 + Len(h.smallest_key) + 1 + Len(h.largest_key)

RECURSIVE MetaEntriesBytes(_)
MetaEntriesBytes(s) ==
  IF s = <<>> THEN 0
  ELSE BlockEntryBytes(8, TableHandleBytes(Head(s).handle)) + MetaEntriesBytes(Tail(s))

(***************************************************************************)
(* State.                                                                  *)
(***************************************************************************)
VARIABLES
  opt,      \* DirOptions and the test fixture, fixed at construction
  tl,       \* the TableLogger, with its two log sinks
  dl,       \* the DirLogger fields guarded by mu_
  bufs,     \* buf0_ and buf1_
  mu,       \* holder of the DirLogger mutex, or NULL
  waiting,  \* threads blocked in bg_cv_->Wait()
  pc,       \* position of every thread
  loc,      \* locals of every thread
  pool,     \* number of BGWork tasks queued in the compaction pool
  hist,     \* what the calls returned, the pairs acknowledged with OK, the
            \* epoch and final flushes that returned OK, and the table
            \* logger calls made after its status turned non-OK
  nops,     \* operations issued so far
  rd,       \* the Dir reader opened on the two logs, and its Read in progress
  sh        \* the table loggers of two partitions that share one data sink

vars == <<opt, tl, dl, bufs, mu, waiting, pc, loc, pool, hist, nops, rd, sh>>

(***************************************************************************)
(* LogSink.                                                                *)
(***************************************************************************)
NewSink(fail_in) == [off |-> 0, ext |-> <<>>, fail_in |-> fail_in, closed |-> FALSE]

Ltell(sink) == sink.off

\* exts are appended at the current offset; n is data.size().  The file
\* fails one Append, after fail_in successful ones, and answers the later
\* ones again
Lwrite_counted(sink, exts, n) ==
  IF sink.closed THEN [st |-> "AssertionFailed", sink |-> sink]
  ELSE IF sink.fail_in = 0
  THEN [st |-> "IOError", sink |-> [sink EXCEPT !.fail_in = -1, !.off = @ + n]]
  ELSE [st |-> OK,
        sink |-> [sink EXCEPT !.off = @ + n,
                              !.ext = @ \o exts,
                              !.fail_in = IF @ > 0 THEN @ - 1 ELSE @]]

Lwrite(sink, exts, n) ==
  IF sink.closed THEN [st |-> "AssertionFailed", sink |-> sink]
  ELSE IF sink.fail_in = 0
  THEN [st |-> "IOError", sink |-> [sink EXCEPT !.fail_in = -1]]
  ELSE [st |-> OK,
        sink |-> [sink EXCEPT !.off = @ + n,
                              !.ext = @ \o exts,
                              !.fail_in = IF @ > 0 THEN @ - 1 ELSE @]]

\* Lclose: file_ becomes NULL
Lclose(sink) == [sink EXCEPT !.closed = TRUE]

Extent(off, size, fsize, kind, ents) ==
  [off |-> off, size |-> size, fsize |-> fsize, kind |-> kind, ents |-> ents,
   crc |-> ~opt.skip_checksums]

(***************************************************************************)
(* TableLogger.  The operators take the table logger state s and return    *)
(* the state after the call.  data_block_ builds its blocks in one shared  *)
(* buffer (buffer_store): s.blocks are the finalized blocks in it, at the  *)
(* offsets EndBlock computed, and s.open the entries of the block under    *)
(* construction, which follow them in the same buffer.                     *)
(* s.cur and s.tabs record the pairs Add accepted and the tables ended.    *)
(***************************************************************************)
NoBlockHandle == [offset |-> 0, size |-> 0]

NoTableHandle ==
  [offset |-> 0, size |-> 0, filter_offset |-> 0, filter_size |-> 0,
   smallest_key |-> <<>>, largest_key |-> <<>>]

NewTableLogger(data_fail_in, indx_fail_in) ==
  [status |-> OK, finished |-> FALSE,
   smallest_key |-> <<>>, largest_key |-> <<>>, last_key |-> <<>>,
   open |-> <<>>, blocks |-> <<>>, fin_bytes |-> 0,
   uncommitted_indexes |-> <<>>,
   num_uncommitted_index |-> 0, num_uncommitted_data |-> 0,
   pending_index_entry |-> FALSE, pending_index_handle |-> NoBlockHandle,
   index_block |-> <<>>, meta_block |-> <<>>,
   pending_meta_entry |-> FALSE, pending_meta_handle |-> NoTableHandle,
   num_tables |-> 0, num_epochs |-> 0,
   data |-> NewSink(data_fail_in), indx |-> NewSink(indx_fail_in),
   viol |-> {}, cur |-> <<>>, tabs |-> <<>>]

\* assert(cond): a failed assertion is recorded and the call goes on as in
\* a build with NDEBUG
Require(s, cond, name) == IF cond THEN s ELSE [s EXCEPT !.viol = @ \cup {name}]

ok(s) == s.status = OK

\* data_block_.buffer_store()->size()
BufferStoreSize(s) == s.fin_bytes + DataEntriesBytes(s.open)

\* data_block_.CurrentSizeEstimate()
CurrentSizeEstimate(s) ==
  DataEntriesBytes(s.open) + RestartBytes(Len(s.open), kDataBlkRestartInt)

\* BlockBuilder::Finalize: body, trailer, zero padding up to pad_to
FinalSize(body, pad_to) == Max(body + kBlockTrailerSize, pad_to)

EndBlockDo(s, block_size, final_block_size, block_offset) ==
  [Require(s, ~s.pending_index_entry, "EndBlock:pending_index_entry") EXCEPT
     !.blocks = Append(@, [offset |-> block_offset, size |-> block_size,
                           fsize |-> final_block_size, ents |-> s.open]),
     !.fin_bytes = @ + final_block_size,
     !.open = <<>>,
     !.pending_index_handle = [offset |-> block_offset, size |-> block_size],
     !.pending_index_entry = TRUE,
     !.num_uncommitted_data = @ + 1]

\* block_offset is the size of the buffer after Finalize less the final size
EndBlockSized(s, block_size, final_block_size) ==
  EndBlockDo(s, block_size, final_block_size,
             (BufferStoreSize(s) + (final_block_size - DataEntriesBytes(s.open)))
               - final_block_size)

EndBlockFrom(s, pad) ==
  IF s.open = <<>> THEN s
  ELSE IF ~ok(s) THEN s
  ELSE EndBlockSized(s, CurrentSizeEstimate(s),
                     FinalSize(CurrentSizeEstimate(s), IF pad THEN opt.block_size ELSE 0))

EndBlockOf(s, pad) == EndBlockFrom(Require(s, ~s.finished, "EndBlock:finished"), pad)

EndBlock(s) == EndBlockOf(s, opt.block_padding)

\* what Commit hands to Lwrite: the finalized blocks, then whatever the
\* block under construction has put in the buffer so far
BufferExtents(s, offset) ==
  [i \in 1..Len(s.blocks) |->
     Extent(offset + s.blocks[i].offset, s.blocks[i].size, s.blocks[i].fsize,
            "data", s.blocks[i].ents)]
  \o (IF s.open = <<>> THEN <<>>
      ELSE <<Extent(offset + s.fin_bytes, DataEntriesBytes(s.open),
                    DataEntriesBytes(s.open), "partial", s.open)>>)

\* the rest of Commit once Lwrite has answered w; offset is the Ltell before it
CommitWritten(s, offset, w, reset_open) ==
  IF w.st # OK THEN [s EXCEPT !.status = w.st, !.data = w.sink]
  ELSE [s EXCEPT
          !.data = w.sink,
          !.index_block = @ \o
             [i \in 1..Len(s.uncommitted_indexes) |->
                [key |-> s.uncommitted_indexes[i].key,
                 offset |-> offset + s.uncommitted_indexes[i].offset,
                 size |-> s.uncommitted_indexes[i].size]],
          !.num_uncommitted_data = 0,
          !.num_uncommitted_index = 0,
          !.uncommitted_indexes = <<>>,
          !.blocks = <<>>,
          !.fin_bytes = 0,
          !.open = IF reset_open THEN <<>> ELSE @]

CommitFrom_unchecked(s, reset_open) ==
  IF BufferStoreSize(s) = 0 THEN s
  ELSE CommitWritten(s, Ltell(s.data),
                     Lwrite(s.data, BufferExtents(s, Ltell(s.data)), BufferStoreSize(s)),
                     reset_open)

CommitFrom(s, reset_open) ==
  IF BufferStoreSize(s) = 0 THEN s
  ELSE IF ~ok(s) THEN s
  ELSE CommitWritten(Require(s, s.num_uncommitted_data = s.num_uncommitted_index,
                             "Commit:uncommitted"),
                     Ltell(s.data),
                     Lwrite(s.data, BufferExtents(s, Ltell(s.data)), BufferStoreSize(s)),
                     reset_open)

\* reset_open: clearing the buffer also drops the block under construction
CommitOf(s, reset_open) == CommitFrom(Require(s, ~s.finished, "Commit:finished"), reset_open)

Commit(s) == CommitOf(s, TRUE)

\* the index entry of the pending block, keyed by key
AddPendingIndex_uncounted(s, key) ==
  [s EXCEPT !.last_key = key,
            !.uncommitted_indexes =
               Append(@, [key |-> key, offset |-> s.pending_index_handle.offset,
                          size |-> s.pending_index_handle.size]),
            !.pending_index_entry = FALSE]

AddPendingIndex(s, key) ==
  [s EXCEPT !.last_key = key,
            !.uncommitted_indexes =
               Append(@, [key |-> key, offset |-> s.pending_index_handle.offset,
                          size |-> s.pending_index_handle.size]),
            !.pending_index_entry = FALSE,
            !.num_uncommitted_index = @ + 1]

EpochKey_swapped(epoch, table) == <<table, epoch>>

EpochKey(epoch, table) == <<epoch, table>>

IndexBlockSize(s) ==
  IndexEntriesBytes(s.index_block) + RestartBytes(Len(s.index_block), kNonDataBlkRestartInt)

\* Lwrite of one finalized block without padding
WriteBlock(sink, kind, size, ents) ==
  Lwrite(sink, <<Extent(Ltell(sink), size, FinalSize(size, 0), kind, ents)>>,
         FinalSize(size, 0))

\* the meta entry of the table and the reset of the per-table state
EndTableMeta(s, h) ==
  [s EXCEPT !.pending_meta_handle = h,
            !.meta_block = Append(@, [key |-> EpochKey(s.num_epochs, s.num_tables),
                                      handle |-> h]),
            !.tabs = Append(@, [epoch |-> s.num_epochs, table |-> s.num_tables,
                                ents |-> s.cur]),
            !.cur = <<>>,
            !.pending_meta_entry = FALSE,
            !.smallest_key = <<>>, !.largest_key = <<>>, !.last_key = <<>>,
            !.num_tables = @ + 1]

EndTablePending_last(s, max_tables) ==
  IF s.num_tables >= max_tables THEN [s EXCEPT !.status = "AssertionFailed"]
  ELSE EndTableMeta(s, [s.pending_meta_handle EXCEPT
                          !.smallest_key = s.smallest_key,
                          !.largest_key = s.largest_key])

EndTablePending_uncapped(s, max_tables) ==
  EndTableMeta(s, [s.pending_meta_handle EXCEPT
                     !.smallest_key = s.smallest_key,
                     !.largest_key = FindShortSuccessor(s.largest_key)])

EndTablePending(s, max_tables) ==
  IF s.num_tables >= max_tables THEN [s EXCEPT !.status = "AssertionFailed"]
  ELSE EndTableMeta(s, [s.pending_meta_handle EXCEPT
                          !.smallest_key = s.smallest_key,
                          !.largest_key = FindShortSuccessor(s.largest_key)])

EndTableHandle(s, index_offset, index_size, filter_offset, filter_size, max_tables) ==
  EndTablePending(
    [Require(s, ~s.pending_meta_entry, "EndTable:pending_meta_entry") EXCEPT
       !.index_block = <<>>,
       !.pending_meta_handle = [@ EXCEPT !.filter_offset = filter_offset,
                                         !.filter_size = filter_size,
                                         !.offset = index_offset,
                                         !.size = index_size],
       !.pending_meta_entry = TRUE],
    max_tables)

EndTableFilterWritten(s, w, index_offset, index_size, filter_offset, filter_size, max_tables) ==
  IF w.st # OK THEN [s EXCEPT !.status = w.st, !.indx = w.sink]
  ELSE EndTableHandle([s EXCEPT !.indx = w.sink], index_offset, index_size,
                      filter_offset, filter_size, max_tables)

\* filter is NoFilter or a BloomBlock
EndTableFilter(s, filter, index_offset, index_size, max_tables) ==
  IF filter.on
  THEN EndTableFilterWritten(s, WriteBlock(s.indx, "filter", filter.bytes + 1, filter),
                             index_offset, index_size, Ltell(s.indx), filter.bytes + 1,
                             max_tables)
  ELSE EndTableHandle(s, index_offset, index_size, Ltell(s.indx), 0, max_tables)

EndTableIndexWritten(s, w, filter, index_offset, index_size, max_tables) ==
  IF w.st # OK THEN [s EXCEPT !.status = w.st, !.indx = w.sink]
  ELSE EndTableFilter([s EXCEPT !.indx = w.sink], filter, index_offset, index_size, max_tables)

EndTableCommitted(s, filter, max_tables) ==
  IF ~ok(s) THEN s
  ELSE IF s.index_block = <<>> THEN s
  ELSE EndTableIndexWritten(s, WriteBlock(s.indx, "index", IndexBlockSize(s), s.index_block),
                            filter, Ltell(s.indx), IndexBlockSize(s), max_tables)

\* EndTable up to its call of Commit
EndTableUpToCommit(s) ==
  IF EndBlock(s).pending_index_entry
  THEN AddPendingIndex(EndBlock(s), FindShortSuccessor(EndBlock(s).last_key))
  ELSE EndBlock(s)

EndTableFrom(s, filter, max_tables) ==
  IF ~ok(s) THEN s
  ELSE EndTableCommitted(
         Commit(IF s.pending_index_entry
                THEN AddPendingIndex(s, FindShortSuccessor(s.last_key))
                ELSE s),
         filter, max_tables)

EndTableOf(s, filter, max_tables) ==
  EndTableFrom(EndBlock(Require(s, ~s.finished, "EndTable:finished")), filter, max_tables)

EndTable(s, filter) == EndTableOf(s, filter, kMaxTablesPerEpoch)

MakeEpochFrom_counted(s, max_epochs) ==
  IF ~ok(s) THEN s
  ELSE IF s.num_epochs >= max_epochs THEN [s EXCEPT !.status = "AssertionFailed"]
  ELSE [s EXCEPT !.num_tables = 0, !.num_epochs = @ + 1]

MakeEpochFrom_kept(s, max_epochs) ==
  IF ~ok(s) THEN s
  ELSE IF s.num_tables = 0 THEN s
  ELSE IF s.num_epochs >= max_epochs THEN [s EXCEPT !.status = "AssertionFailed"]
  ELSE [s EXCEPT !.num_epochs = @ + 1]

MakeEpochFrom(s, max_epochs) ==
  IF ~ok(s) THEN s
  ELSE IF s.num_tables = 0 THEN s
  ELSE IF s.num_epochs >= max_epochs THEN [s EXCEPT !.status = "AssertionFailed"]
  ELSE [s EXCEPT !.num_tables = 0, !.num_epochs = @ + 1]

MakeEpochOf(s, max_epochs) ==
  MakeEpochFrom(EndTable(Require(s, ~s.finished, "MakeEpoch:finished"),
                         [on |-> FALSE, bits |-> {}, k |-> 0, bytes |-> 0]),
                max_epochs)

MakeEpoch(s) == MakeEpochOf(s, kMaxEpoches)

\* data_block_.Add and the test that ends the block
AddToBlock(s, key, value) ==
  IF CurrentSizeEstimate(s) + BlockEntryBytes(Len(key), Len(value)) + kBlockTrailerSize
       >= (opt.block_size * opt.block_util) \div 100
  THEN EndBlock([s EXCEPT !.last_key = key,
                          !.open = Append(@, [key |-> key, value |-> value]),
                          !.cur = Append(@, [key |-> key, value |-> value])])
  ELSE [s EXCEPT !.last_key = key,
                 !.open = Append(@, [key |-> key, value |-> value]),
                 !.cur = Append(@, [key |-> key, value |-> value])]

\* the flush of the block buffer when it is about to be full
AddCommit(s, key, value, commit_early) ==
  AddToBlock(IF commit_early /\ BufferStoreSize(s) + opt.block_size > opt.block_buffer
             THEN Commit(s) ELSE s,
             key, value)

AddIndexed_successor(s, key, value, commit_early) ==
  AddCommit(IF s.pending_index_entry
            THEN AddPendingIndex(s, FindShortSuccessor(s.last_key))
            ELSE s,
            key, value, commit_early)

AddIndexed(s, key, value, commit_early) ==
  AddCommit(IF s.pending_index_entry
            THEN AddPendingIndex(s, FindShortestSeparator(s.last_key, key))
            ELSE s,
            key, value, commit_early)

AddChecked(s, key, value, commit_early) ==
  AddIndexed([s EXCEPT !.smallest_key = IF @ = <<>> THEN key ELSE @,
                       !.largest_key = key],
             key, value, commit_early)

AddFrom(s, key, value, commit_early) ==
  IF ~ok(s) THEN s
  ELSE AddChecked(
         IF s.last_key # <<>>
         THEN Require(Require(s, ~KeyLess(key, s.last_key), "Add:order"),
                      ~(opt.unique_keys /\ key = s.last_key), "Add:duplicate")
         ELSE s,
         key, value, commit_early)

\* Add up to its test of the block buffer: the state Commit is called on
AddUpToCommit(s, key) ==
  IF s.pending_index_entry
  THEN AddPendingIndex([s EXCEPT !.smallest_key = IF @ = <<>> THEN key ELSE @,
                                 !.largest_key = key],
                       FindShortestSeparator(s.last_key, key))
  ELSE [s EXCEPT !.smallest_key = IF @ = <<>> THEN key ELSE @, !.largest_key = key]

\* Add calls Commit, and Commit goes on to its write
NeedsCommit(s) ==
  /\ ok(s) /\ BufferStoreSize(s) # 0
  /\ BufferStoreSize(s) + opt.block_size > opt.block_buffer

TLAddOf(s, key, value, commit_early) ==
  AddFrom(Require(Require(s, ~s.finished, "Add:finished"), key # <<>>, "Add:empty key"),
          key, value, commit_early)

TLAdd(s, key, value) == TLAddOf(s, key, value, TRUE)

MetaBlockSize(s) ==
  MetaEntriesBytes(s.meta_block) + RestartBytes(Len(s.meta_block), kNonDataBlkRestartInt)

TailPadding_none(total_size) == 0

\* the zero padding Finish writes before the footer
TailPadding(total_size) ==
  IF total_size % opt.index_buffer # 0
  THEN opt.index_buffer - (total_size % opt.index_buffer)
  ELSE 0

FinishFooterWritten(s, w) == [s EXCEPT !.status = w.st, !.indx = w.sink]

FinishFooter(s, footer) ==
  IF ~ok(s) THEN s
  ELSE FinishFooterWritten(
         s, Lwrite(s.indx,
                   <<Extent(Ltell(s.indx), kFooterEncodeLength, kFooterEncodeLength,
                            "footer", footer)>>,
                   kFooterEncodeLength))

FinishPadWritten(s, w, footer) ==
  FinishFooter([s EXCEPT !.status = w.st, !.indx = w.sink], footer)

FinishPad(s, n, footer) ==
  IF n # 0
  THEN FinishPadWritten(s, Lwrite(s.indx, <<Extent(Ltell(s.indx), n, n, "pad", <<>>)>>, n),
                        footer)
  ELSE FinishFooter(s, footer)

FinishMetaWritten(s, w, footer) ==
  IF w.st # OK THEN [s EXCEPT !.status = w.st, !.indx = w.sink]
  ELSE FinishPad([s EXCEPT !.indx = w.sink],
                 IF opt.tail_padding
                 THEN TailPadding(Ltell(w.sink) + kFooterEncodeLength) ELSE 0,
                 footer)

FinishFrom(s) ==
  IF ~ok(s) THEN s
  ELSE FinishMetaWritten(
         Require(s, ~s.pending_meta_entry, "Finish:pending_meta_entry"),
         WriteBlock(s.indx, "meta", MetaBlockSize(s), s.meta_block),
         [offset |-> Ltell(s.indx), size |-> MetaBlockSize(s),
          num_epoches |-> s.num_epochs])

TLFinish(s) ==
  FinishFrom([MakeEpoch(Require(s, ~s.finished, "Finish:finished")) EXCEPT !.finished = TRUE])

(***************************************************************************)
(* BloomBlock.  A 32-bit hash is kept as its two 16-bit halves [hi, lo].   *)
(***************************************************************************)
RECURSIVE KeySum(_, _)
KeySum(key, w) == IF key = <<>> THEN 0 ELSE (Head(key) * w + KeySum(Tail(key), w + 2)) % 65536

BloomHash(key) ==
  [hi |-> (48287 + KeySum(key, 251)) % 65536, lo |-> (7476 + KeySum(key, 1009)) % 65536]

\* (h >> 17) | (h << 15)
RotateRight17(h) ==
  [hi |-> (h.hi % 2) * 32768 + (h.lo \div 2), lo |-> (h.lo % 2) * 32768 + (h.hi \div 2)]

\* h += delta, modulo 2^32
HashAdd(h, d) ==
  LET lo == h.lo + d.lo
  IN [hi |-> (h.hi + d.hi + (lo \div 65536)) % 65536, lo |-> lo % 65536]

\* h % bits
HashMod(h, bits) == ((h.hi % bits) * (65536 % bits) + (h.lo % bits)) % bits

RECURSIVE Probes(_, _, _, _)
Probes(h, delta, k, bits) ==
  IF k = 0 THEN {}
  ELSE {HashMod(h, bits)} \cup Probes(HashAdd(h, delta), delta, k - 1, bits)

\* the bit positions AddKey sets and BloomKeyMayMatch tests for key
BloomBits(key, k, bits) == Probes(BloomHash(key), RotateRight17(BloomHash(key)), k, bits)

\* round(bits_per_key * ln 2), ln 2 taken as 0.693147
BloomK_rounded(bits_per_key) ==
  LET k == (bits_per_key * 693147 + 500000) \div 1000000
  IN IF k < 1 THEN 1 ELSE IF k > 30 THEN 30 ELSE k

\* k_ as computed by BloomBlock::Reset: static_cast<uint32_t>(bits_per_key * 0.69)
BloomK(bits_per_key) ==
  LET k == (bits_per_key * 69) \div 100
  IN IF k < 1 THEN 1 ELSE IF k > 30 THEN 30 ELSE k

\* no filter block: the NULL passed to EndTable
NoFilter == [on |-> FALSE, bits |-> {}, k |-> 0, bytes |-> 0]

BloomReset(bits_per_key, bytes) ==
  [on |-> TRUE, bits |-> {}, k |-> BloomK(bits_per_key), bytes |-> bytes]

BloomAddKey_none(bf, key) == bf

BloomAddKey(bf, key) == [bf EXCEPT !.bits = @ \cup BloomBits(key, bf.k, 8 * bf.bytes)]

\* input is the filter as stored: the bit array followed by the byte k
BloomKeyMayMatch(key, input) ==
  IF input.bytes + 1 < 2 THEN TRUE
  ELSE IF input.k > 30 THEN TRUE
  ELSE BloomBits(key, input.k, 8 * input.bytes) \subseteq input.bits

(***************************************************************************)
(* WriteBuffer.                                                            *)
(***************************************************************************)
NewWriteBuffer == [entries |-> <<>>, finished |-> FALSE]

WriteBufferReset_kept(b) == b

WriteBufferReset(b) == [entries |-> <<>>, finished |-> FALSE]

CurrentBufferSize(b) == EntriesBytes(b.entries)

WriteBufferAdd(b, key, value) == [b EXCEPT !.entries = Append(@, [key |-> key, value |-> value])]

\* the orders std::sort may leave the offsets in: sorted by key, entries of
\* equal keys in any relative order
SortedOrders(entries) ==
  LET n == Len(entries)
  IN {p \in [1..n -> 1..n] :
        /\ \A i, j \in 1..n : i # j => p[i] # p[j]
        /\ \A i \in 1..(n - 1) : ~KeyLess(entries[p[i + 1]].key, entries[p[i]].key)}

\* the one order a stable sort leaves them in
StableOrders(entries) ==
  {p \in SortedOrders(entries) :
     \A i, j \in 1..Len(entries) :
        (i < j /\ entries[p[i]].key = entries[p[j]].key) => p[i] < p[j]}

FinishAndSort(entries) == SortedOrders(entries)

(***************************************************************************)
(* DirLogger.  Producers call Add and Flush holding mu_; a compaction runs *)
(* on a worker of the compaction pool or, without a pool, inline on the    *)
(* producer that swapped the buffers.  An action is one stretch of code    *)
(* executed without releasing mu_, or one step of the compaction body,     *)
(* which runs with mu_ released.                                           *)
(***************************************************************************)
Producers == {"p1", "p2"}
Workers == {"w1"}
Threads == Producers \cup Workers

(* The sizes the DirLogger constructor derives from the options.  A size_t
   below zero wraps to 2^64 minus its distance from zero; the model keeps
   that distance, the wrapped value being beyond its integers. *)
NoSizing ==
  [built |-> FALSE, wrapped |-> FALSE, table_buffer |-> 0, total_bits_per_entry |-> 0,
   entries_per_tb |-> 0, tb_bytes |-> 0, bf_bits |-> 0, bf_bytes |-> 0]

OverheadPerEntry(o) == VarintLength(o.key_size) + VarintLength(o.value_size) + 4

BytesPerEntry(o) == o.key_size + o.value_size + OverheadPerEntry(o)

TotalBitsPerEntry(o) == o.bf_bits_per_key + 2 * (8 * BytesPerEntry(o))

\* memtable_buffer / (1 << lg_parts)
PartitionShare(o) == o.memtable_buffer \div (2 ^ o.lg_parts)

\* what the cast of a double beyond uint32_t may leave in entries_per_tb_
UndefinedEntries == {0, 1, 65535}

\* ceil(8.0 * table_buffer / total_bits_per_entry) as uint32_t
EntriesPerTb(o) ==
  IF PartitionShare(o) < o.block_buffer THEN UndefinedEntries
  ELSE {(8 * (PartitionShare(o) - o.block_buffer) + TotalBitsPerEntry(o) - 1)
          \div TotalBitsPerEntry(o)}

\* bf_bits_ with its minimum of 64, rounded up to whole bytes
BfBytes(bf_bits) == ((IF bf_bits > 0 /\ bf_bits < 64 THEN 64 ELSE bf_bits) + 7) \div 8

Sizing(o, entries) ==
  [built |-> TRUE,
   wrapped |-> PartitionShare(o) < o.block_buffer,
   table_buffer |-> IF PartitionShare(o) < o.block_buffer
                    THEN o.block_buffer - PartitionShare(o)
                    ELSE PartitionShare(o) - o.block_buffer,
   total_bits_per_entry |-> TotalBitsPerEntry(o),
   entries_per_tb |-> entries,
   tb_bytes |-> entries * (BytesPerEntry(o) - 4),
   bf_bits |-> 8 * BfBytes(entries * o.bf_bits_per_key),
   bf_bytes |-> BfBytes(entries * o.bf_bits_per_key)]

(* Two partitions, each with its own TableLogger and index log, write to
   one data sink; mu is the holder of the mutex of that sink, pc the
   position of each partition's thread, and offset, key and value its
   locals.  told and at record, for every Commit that wrote, the offset it
   read with Ltell and the offset the sink had when its Lwrite ran. *)
Partitions == {"a", "b"}

NewShared(data_fail_in) ==
  [data |-> NewSink(data_fail_in), mu |-> NULL,
   tl |-> [i \in Partitions |-> NewTableLogger(-1, -1)],
   pc |-> [i \in Partitions |-> "idle"],
   offset |-> [i \in Partitions |-> 0],
   key |-> [i \in Partitions |-> <<>>],
   value |-> [i \in Partitions |-> <<>>],
   commits |-> {}]

NewDirLogger ==
  [mem_buf |-> "buf0", imm_buf |-> NULL,
   imm_buf_is_epoch_flush |-> FALSE, imm_buf_is_final |-> FALSE,
   num_flush_requested |-> 0, num_flush_completed |-> 0,
   has_bg_compaction |-> FALSE,
   filter |-> NoFilter, viol |-> {}, size |-> NoSizing]

NoLocals ==
  [op |-> "none", key |-> <<>>, value |-> <<>>,
   fo |-> [dry_run |-> FALSE, no_wait |-> FALSE, epoch_flush |-> FALSE, finalize |-> FALSE],
   force |-> FALSE, epoch_flush |-> FALSE, finalize |-> FALSE, thres |-> 0,
   status |-> OK, snap |-> 0, pre |-> FALSE, err |-> OK,
   inline |-> FALSE, current_buf |-> NULL,
   buffer |-> NULL, is_final |-> FALSE, is_epoch_flush |-> FALSE, bf |-> NoFilter,
   switched |-> FALSE, passed |-> <<>>]

NoReturn == [op |-> "none", st |-> OK]

OtherBuf(b) == IF b = "buf0" THEN "buf1" ELSE "buf0"

\* static_cast<size_t>(tb_bytes_ * options_.memtable_util)
MemtableThreshold == (opt.tb_bytes * opt.memtable_util) \div 100

\* bg_cv_->Wait(): mu_ is released and the thread sleeps until SignalAll
CvWait(t, at) ==
  /\ pc' = [pc EXCEPT ![t] = at]
  /\ waiting' = waiting \cup {t}
  /\ mu' = NULL

\* the call returns to the producer, which releases mu_
ReturnTo(p, rec) ==
  /\ pc' = [pc EXCEPT ![p] = "idle"]
  /\ loc' = [loc EXCEPT ![p] = NoLocals]
  /\ mu' = NULL
  /\ hist' = [hist EXCEPT !.ret[p] = rec,
                          !.full = @ \/ (rec.op = "add" /\ rec.st = "BufferFull"),
                          !.acked = IF rec.op = "add" /\ rec.st = OK
                                    THEN Append(@, [key |-> loc[p].key, value |-> loc[p].value])
                                    ELSE @,
                          !.flushed = IF /\ rec.op = "flush" /\ rec.st = OK
                                         /\ ~rec.fo.dry_run
                                         /\ rec.fo.epoch_flush \/ rec.fo.finalize
                                      THEN @ \cup {[fo |-> rec.fo, snap |-> rec.snap]}
                                      ELSE @]

(* DirLogger::Add, up to the call of Prepare *)
AddCall(p, key, value) ==
  /\ p \in opt.producers /\ pc[p] = "idle" /\ mu = NULL /\ nops < opt.max_ops
  /\ nops' = nops + 1
  /\ mu' = p
  /\ pc' = [pc EXCEPT ![p] = "prepare"]
  /\ loc' = [loc EXCEPT ![p] =
               [NoLocals EXCEPT !.op = "add", !.key = key, !.value = value,
                                !.err = tl.status,
                                !.pre = /\ hist.full
                                        /\ dl.imm_buf = NULL /\ ~dl.has_bg_compaction
                                        /\ ok(tl)]]
  /\ hist' = [hist EXCEPT !.ret[p] = NoReturn]
  /\ UNCHANGED <<opt, tl, dl, bufs, waiting, pool>>

FlushFrom_requested(p, fo, snap, err) ==
  IF dl.imm_buf # NULL
  THEN IF fo.dry_run \/ opt.non_blocking
       THEN /\ ReturnTo(p, [op |-> "flush", st |-> "BufferFull", fo |-> fo, snap |-> snap,
                             err |-> err])
            /\ UNCHANGED <<dl, waiting>>
       ELSE /\ CvWait(p, "flush_imm_wait")
            /\ loc' = [loc EXCEPT ![p] = [NoLocals EXCEPT !.op = "flush", !.fo = fo,
                                                          !.snap = snap, !.err = err]]
            /\ UNCHANGED <<dl, hist>>
  ELSE IF fo.dry_run
       THEN /\ ReturnTo(p, [op |-> "flush", st |-> tl.status, fo |-> fo, snap |-> snap,
                             err |-> err])
            /\ dl' = [dl EXCEPT !.num_flush_requested = @ + 1]
            /\ UNCHANGED waiting
       ELSE /\ dl' = [dl EXCEPT !.num_flush_requested = @ + 1]
            /\ mu' = p
            /\ pc' = [pc EXCEPT ![p] = "prepare"]
            /\ loc' = [loc EXCEPT ![p] =
                         [NoLocals EXCEPT !.op = "flush", !.fo = fo, !.snap = snap,
                                          !.err = err,
                                          !.force = TRUE,
                                          !.epoch_flush = fo.epoch_flush,
                                          !.finalize = fo.finalize,
                                          !.thres = dl.num_flush_requested + 1]]
            /\ UNCHANGED <<waiting, hist>>

(* DirLogger::Flush from the test of imm_buf_ on: the first loop, then the
   status check of a dry run or the call of Prepare *)
FlushFrom(p, fo, snap, err) ==
  IF dl.imm_buf # NULL
  THEN IF fo.dry_run \/ opt.non_blocking
       THEN /\ ReturnTo(p, [op |-> "flush", st |-> "BufferFull", fo |-> fo, snap |-> snap,
                             err |-> err])
            /\ UNCHANGED <<dl, waiting>>
       ELSE /\ CvWait(p, "flush_imm_wait")
            /\ loc' = [loc EXCEPT ![p] = [NoLocals EXCEPT !.op = "flush", !.fo = fo,
                                                          !.snap = snap, !.err = err]]
            /\ UNCHANGED <<dl, hist>>
  ELSE IF fo.dry_run
       THEN /\ ReturnTo(p, [op |-> "flush", st |-> tl.status, fo |-> fo, snap |-> snap,
                             err |-> err])
            /\ UNCHANGED <<dl, waiting>>
       ELSE /\ dl' = [dl EXCEPT !.num_flush_requested = @ + 1]
            /\ mu' = p
            /\ pc' = [pc EXCEPT ![p] = "prepare"]
            /\ loc' = [loc EXCEPT ![p] =
                         [NoLocals EXCEPT !.op = "flush", !.fo = fo, !.snap = snap,
                                          !.err = err,
                                          !.force = TRUE,
                                          !.epoch_flush = fo.epoch_flush,
                                          !.finalize = fo.finalize,
                                          !.thres = dl.num_flush_requested + 1]]
            /\ UNCHANGED <<waiting, hist>>

FlushCall(p, fo) ==
  /\ p \in opt.producers /\ pc[p] = "idle" /\ mu = NULL /\ nops < opt.max_ops
  /\ nops' = nops + 1
  /\ FlushFrom(p, fo, Len(hist.acked), tl.status)
  /\ UNCHANGED <<opt, tl, bufs, pool>>

(* bg_cv_->Wait() returns in the first loop of Flush *)
FlushWake(p) ==
  /\ pc[p] = "flush_imm_wait" /\ p \notin waiting /\ mu = NULL
  /\ FlushFrom(p, loc[p].fo, loc[p].snap, loc[p].err)
  /\ UNCHANGED <<opt, tl, bufs, pool, nops>>

(* DirLogger::Wait from the test of its loop on *)
WaitFrom(p) ==
  IF ok(tl) /\ dl.has_bg_compaction
  THEN /\ CvWait(p, "wait_bg_wait")
       /\ loc' = [loc EXCEPT ![p] = [NoLocals EXCEPT !.op = "wait"]]
       /\ UNCHANGED hist
  ELSE /\ ReturnTo(p, [op |-> "wait", st |-> tl.status, bg |-> dl.has_bg_compaction])
       /\ UNCHANGED waiting

WaitCall(p) ==
  /\ p \in opt.producers /\ pc[p] = "idle" /\ mu = NULL /\ nops < opt.max_ops
  /\ nops' = nops + 1
  /\ WaitFrom(p)
  /\ UNCHANGED <<opt, tl, dl, bufs, pool>>

(* bg_cv_->Wait() returns in the loop of Wait *)
WaitWake(p) ==
  /\ pc[p] = "wait_bg_wait" /\ p \notin waiting /\ mu = NULL
  /\ WaitFrom(p)
  /\ UNCHANGED <<opt, tl, dl, bufs, pool, nops>>

AfterPrepare_inserted(p, status) ==
  IF loc[p].op = "add"
  THEN /\ bufs' = IF status # "BufferFull"
                  THEN [bufs EXCEPT ![dl.mem_buf] = WriteBufferAdd(@, loc[p].key, loc[p].value)]
                  ELSE bufs
       /\ dl' = IF status = OK /\ bufs[dl.mem_buf].finished
                THEN [dl EXCEPT !.viol = @ \cup {"WriteBuffer::Add:finished"}]
                ELSE dl
       /\ ReturnTo(p, [op |-> "add", st |-> status, pre |-> loc[p].pre,
                       err |-> loc[p].err, switched |-> loc[p].switched,
                       key |-> loc[p].key, value |-> loc[p].value])
       /\ UNCHANGED waiting
  ELSE IF status = OK /\ ~loc[p].fo.no_wait /\ dl.num_flush_completed < loc[p].thres
       THEN /\ CvWait(p, "flush_done_wait")
            /\ loc' = [loc EXCEPT ![p] = [@ EXCEPT !.status = status]]
            /\ UNCHANGED <<dl, bufs, hist>>
       ELSE /\ ReturnTo(p, [op |-> "flush", st |-> status, fo |-> loc[p].fo,
                            snap |-> loc[p].snap, err |-> loc[p].err])
            /\ UNCHANGED <<dl, bufs, waiting>>

(* Prepare has returned status to Add or Flush *)
AfterPrepare(p, status) ==
  IF loc[p].op = "add"
  THEN /\ bufs' = IF status = OK
                  THEN [bufs EXCEPT ![dl.mem_buf] = WriteBufferAdd(@, loc[p].key, loc[p].value)]
                  ELSE bufs
       /\ dl' = IF status = OK /\ bufs[dl.mem_buf].finished
                THEN [dl EXCEPT !.viol = @ \cup {"WriteBuffer::Add:finished"}]
                ELSE dl
       /\ ReturnTo(p, [op |-> "add", st |-> status, pre |-> loc[p].pre,
                       err |-> loc[p].err, switched |-> loc[p].switched,
                       key |-> loc[p].key, value |-> loc[p].value])
       /\ UNCHANGED waiting
  ELSE IF status = OK /\ ~loc[p].fo.no_wait /\ dl.num_flush_completed < loc[p].thres
       THEN /\ CvWait(p, "flush_done_wait")
            /\ loc' = [loc EXCEPT ![p] = [@ EXCEPT !.status = status]]
            /\ UNCHANGED <<dl, bufs, hist>>
       ELSE /\ ReturnTo(p, [op |-> "flush", st |-> status, fo |-> loc[p].fo,
                            snap |-> loc[p].snap, err |-> loc[p].err])
            /\ UNCHANGED <<dl, bufs, waiting>>

(* bg_cv_->Wait() returns in the second loop of Flush *)
FlushDoneWake(p) ==
  /\ pc[p] = "flush_done_wait" /\ p \notin waiting /\ mu = NULL
  /\ AfterPrepare(p, loc[p].status)
  /\ UNCHANGED <<opt, tl, pool, nops>>

(* bg_cv_->Wait() returns in Prepare, with mu_ held again *)
PrepareWake(p) ==
  /\ pc[p] = "prepare_wait" /\ p \notin waiting /\ mu = NULL
  /\ mu' = p
  /\ pc' = [pc EXCEPT ![p] = "prepare"]
  /\ UNCHANGED <<opt, tl, dl, bufs, waiting, loc, pool, hist, nops>>

(* the two early returns of MaybeScheduleCompaction: a compaction is started
   only if none is scheduled and there is an immutable buffer *)
MaybeScheduleCompaction(d) == ~d.has_bg_compaction /\ d.imm_buf # NULL

(* the switch to a new write buffer in Prepare, up to MaybeScheduleCompaction;
   the caller notes in its local switched that it has made one *)
SwitchBuffer(d, l) ==
  [d EXCEPT !.imm_buf = d.mem_buf,
            !.imm_buf_is_epoch_flush = @ \/ l.epoch_flush,
            !.imm_buf_is_final = @ \/ l.finalize]

DoCompaction_release(d) == [d EXCEPT !.imm_buf = NULL, !.has_bg_compaction = FALSE]

(* the entry of DoCompaction: its two assertions; the flag and the immutable
   buffer stay as they are until CompactMemtable is back *)
DoCompaction(d) ==
  [d EXCEPT !.viol = @ \cup (IF d.has_bg_compaction THEN {}
                             ELSE {"DoCompaction:has_bg_compaction"})
                      \cup (IF d.imm_buf # NULL THEN {} ELSE {"DoCompaction:imm_buf"})]

(* DoCompaction up to the mu_->Unlock() of CompactMemtable, run by thread t *)
EnterCompaction(t, d, inline, current_buf) ==
  /\ dl' = DoCompaction(d)
  /\ pc' = [pc EXCEPT ![t] = "compact"]
  /\ loc' = [loc EXCEPT ![t] =
               [@ EXCEPT !.inline = inline, !.current_buf = current_buf,
                         !.switched = @ \/ inline,
                         !.force = FALSE, !.epoch_flush = FALSE, !.finalize = FALSE,
                         !.buffer = d.imm_buf,
                         !.is_final = d.imm_buf_is_final,
                         !.is_epoch_flush = d.imm_buf_is_epoch_flush,
                         !.bf = d.filter]]
  /\ mu' = NULL

Prepare_blocking(force) ==
  IF ~ok(tl) THEN "error"
  ELSE IF ~force /\ CurrentBufferSize(bufs[dl.mem_buf]) < MemtableThreshold THEN "room"
  ELSE IF dl.imm_buf # NULL THEN "wait"
  ELSE "switch"

Prepare_unchecked(force) ==
  IF ~force /\ CurrentBufferSize(bufs[dl.mem_buf]) < MemtableThreshold THEN "room"
  ELSE IF dl.imm_buf # NULL THEN (IF opt.non_blocking THEN "full" ELSE "wait")
  ELSE "switch"

(* the branch one iteration of the loop of Prepare takes *)
Prepare(force) ==
  IF ~ok(tl) THEN "error"
  ELSE IF ~force /\ CurrentBufferSize(bufs[dl.mem_buf]) < MemtableThreshold THEN "room"
  ELSE IF dl.imm_buf # NULL THEN (IF opt.non_blocking THEN "full" ELSE "wait")
  ELSE "switch"

(* one iteration of the loop of Prepare *)
PrepareStep(p) ==
  /\ pc[p] = "prepare" /\ mu = p
  /\ IF Prepare(loc[p].force) = "error"
     THEN /\ AfterPrepare(p, tl.status)
          /\ UNCHANGED pool
     ELSE IF Prepare(loc[p].force) = "room"
     THEN /\ AfterPrepare(p, OK)
          /\ UNCHANGED pool
     ELSE IF Prepare(loc[p].force) = "full"
     THEN /\ AfterPrepare(p, "BufferFull")
          /\ UNCHANGED pool
     ELSE IF Prepare(loc[p].force) = "wait"
     THEN /\ CvWait(p, "prepare_wait")
          /\ UNCHANGED <<dl, bufs, loc, pool, hist>>
     ELSE LET d == SwitchBuffer(dl, loc[p])
          IN IF MaybeScheduleCompaction(d) /\ ~opt.pool
             THEN /\ EnterCompaction(p, [d EXCEPT !.has_bg_compaction = TRUE], TRUE, dl.mem_buf)
                  /\ UNCHANGED <<bufs, waiting, pool, hist>>
             ELSE /\ dl' = [d EXCEPT !.has_bg_compaction = @ \/ MaybeScheduleCompaction(d),
                                     !.mem_buf = OtherBuf(dl.mem_buf)]
                  /\ pool' = IF MaybeScheduleCompaction(d) THEN pool + 1 ELSE pool
                  /\ loc' = [loc EXCEPT ![p] = [@ EXCEPT !.force = FALSE,
                                                         !.epoch_flush = FALSE,
                                                         !.finalize = FALSE,
                                                         !.switched = TRUE]]
                  /\ UNCHANGED <<bufs, mu, waiting, pc, hist>>
  /\ UNCHANGED <<opt, tl, nops>>

(* BGWork: a worker of the pool takes a queued task *)
BGWork(w) ==
  /\ opt.pool /\ w \in opt.workers
  /\ pc[w] = "idle" /\ mu = NULL /\ pool > 0
  /\ pool' = pool - 1
  /\ EnterCompaction(w, dl, FALSE, NULL)
  /\ UNCHANGED <<opt, tl, bufs, waiting, hist, nops>>

\* the loop of CompactMemtable over the sorted entries: it stops at the
\* first entry that leaves the table logger with an error
RECURSIVE AddAll(_, _)
AddAll(s, items) ==
  IF items = <<>> THEN s
  ELSE IF ~ok(TLAdd(s, Head(items).key, Head(items).value))
  THEN TLAdd(s, Head(items).key, Head(items).value)
  ELSE AddAll(TLAdd(s, Head(items).key, Head(items).value), Tail(items))

RECURSIVE AddAllKeys(_, _)
AddAllKeys(bf, items) ==
  IF items = <<>> THEN bf
  ELSE AddAllKeys(BloomAddKey(bf, Head(items).key), Tail(items))

\* the calls that close the table once the loop is over
CloseFinal(s, is_final) == IF is_final THEN TLFinish(s) ELSE s

CloseEpoch(s, is_epoch_flush, is_final) ==
  CloseFinal(IF is_epoch_flush THEN MakeEpoch(s) ELSE s, is_final)

CloseTable(s, bf, is_epoch_flush, is_final) ==
  IF ~ok(s) THEN s
  ELSE CloseEpoch(EndTable(s, bf), is_epoch_flush, is_final)

\* the entries of buffer b in the order the sort left them; passed keeps
\* the sequence the loop of CompactMemtable iterates over
Sorted(b, order) == [i \in 1..Len(b.entries) |-> b.entries[order[i]]]

(* CompactMemtable between mu_->Unlock() and mu_->Lock(), run by thread t
   on the buffer it captured *)
CompactMemtable(t) ==
  /\ pc[t] = "compact"
  /\ \E order \in FinishAndSort(bufs[loc[t].buffer].entries) :
       /\ tl' = CloseTable(AddAll(tl, Sorted(bufs[loc[t].buffer], order)),
                           IF loc[t].bf.on
                           THEN AddAllKeys(BloomReset(opt.bf_bits_per_key, opt.bf_bytes),
                                           bufs[loc[t].buffer].entries)
                           ELSE loc[t].bf,
                           loc[t].is_epoch_flush, loc[t].is_final)
       /\ loc' = [loc EXCEPT ![t] = [@ EXCEPT !.passed = Sorted(bufs[loc[t].buffer], order)]]
  /\ bufs' = [bufs EXCEPT ![loc[t].buffer] = [@ EXCEPT !.finished = TRUE]]
  /\ dl' = IF bufs[loc[t].buffer].finished
           THEN [dl EXCEPT !.viol = @ \cup {"FinishAndSort:finished"}]
           ELSE dl
  /\ pc' = [pc EXCEPT ![t] = "compact_lock"]
  /\ UNCHANGED <<opt, mu, waiting, pool, hist, nops>>

(* the rest of DoCompaction once CompactMemtable has mu_ again *)
FinishCompaction(d) ==
  [d EXCEPT !.num_flush_completed = @ + 1,
            !.imm_buf_is_epoch_flush = FALSE,
            !.imm_buf_is_final = FALSE,
            !.imm_buf = NULL,
            !.has_bg_compaction = FALSE]

\* bg_cv_->SignalAll(): no thread is left waiting
SignalAll_lost(sleepers) == sleepers

SignalAll(sleepers) == {}

(* mu_->Lock() at the end of CompactMemtable, the rest of DoCompaction, and
   for an inline compaction the rest of the switch in Prepare *)
CompactDone(t) ==
  /\ pc[t] = "compact_lock" /\ mu = NULL
  /\ bufs' = IF dl.imm_buf = NULL THEN bufs
             ELSE [bufs EXCEPT ![dl.imm_buf] = WriteBufferReset(@)]
  /\ LET d == [FinishCompaction(dl) EXCEPT
                 !.viol = @ \cup (IF dl.imm_buf = NULL THEN {"DoCompaction:Reset"} ELSE {})]
         again == MaybeScheduleCompaction(d) /\ opt.pool
     IN /\ pool' = IF again THEN pool + 1 ELSE pool
        /\ dl' = [d EXCEPT !.has_bg_compaction = again,
                           !.mem_buf = IF loc[t].inline THEN OtherBuf(loc[t].current_buf) ELSE @]
  /\ waiting' = SignalAll(waiting)
  /\ IF loc[t].inline
     THEN /\ mu' = t
          /\ pc' = [pc EXCEPT ![t] = "prepare"]
          /\ loc' = [loc EXCEPT ![t] =
                       [@ EXCEPT !.inline = FALSE, !.current_buf = NULL, !.buffer = NULL,
                                 !.is_final = FALSE, !.is_epoch_flush = FALSE,
                                 !.bf = NoFilter, !.passed = <<>>]]
     ELSE /\ mu' = NULL
          /\ pc' = [pc EXCEPT ![t] = "idle"]
          /\ loc' = [loc EXCEPT ![t] = NoLocals]
  /\ UNCHANGED <<opt, tl, hist, nops>>

(***************************************************************************)
(* Dir, the reader.  The log sources read what the sinks wrote.  A block   *)
(* is found by the handle that names it; Fetch and Get are computed as     *)
(* the code iterates, and return the values handed to the saver in order.  *)
(***************************************************************************)
Corruption == "Corruption"

BlockKinds == {"data", "index", "filter", "meta"}

\* the blocks of log ("data" or "indx") that a handle h names
BlockAt(log, h) ==
  {i \in 1..Len(tl[log].ext) :
     /\ tl[log].ext[i].off = h.offset /\ tl[log].ext[i].size = h.size
     /\ tl[log].ext[i].kind \in BlockKinds}

\* LogSource::Size of a log: rd.cut bytes are missing from the end of the
\* data log, rd.icut from the end of the index log
SourceSize(log) == IF log = "data" THEN tl.data.off - rd.cut ELSE tl.indx.off - rd.icut

\* a read past the end is truncated; bytes that no Finalize wrote at this
\* place, and a block with a changed byte, fail the checksum
ReadBlock(log, h) ==
  IF h.offset + h.size + (IF opt.skip_checksums THEN 0 ELSE kBlockTrailerSize)
       > SourceSize(log)
  THEN [st |-> Corruption, ents |-> <<>>]
  ELSE IF BlockAt(log, h) = {}
  THEN [st |-> Corruption, ents |-> <<>>]
  ELSE IF \E i \in BlockAt(log, h) : <<log, i>> \in rd.bad
  THEN [st |-> Corruption, ents |-> <<>>]
  ELSE [st |-> OK, ents |-> tl[log].ext[CHOOSE i \in BlockAt(log, h) : TRUE].ents]

\* position of the first entry of ents whose key is not below key
RECURSIVE SeekFrom(_, _, _)
SeekFrom(ents, i, key) ==
  IF i > Len(ents) THEN i
  ELSE IF KeyLess(ents[i].key, key) THEN SeekFrom(ents, i + 1, key)
  ELSE i

\* the loop of Fetch over one data block, from position i on
RECURSIVE ScanBlock(_, _, _, _)
ScanBlock(ents, i, key, acc) ==
  IF i > Len(ents) THEN [st |-> OK, values |-> acc, exhausted |-> FALSE]
  ELSE IF ents[i].key = key
  THEN IF opt.unique_keys
       THEN [st |-> OK, values |-> Append(acc, ents[i].value), exhausted |-> TRUE]
       ELSE ScanBlock(ents, i + 1, key, Append(acc, ents[i].value))
  ELSE [st |-> OK, values |-> acc, exhausted |-> TRUE]

FetchBlockRead_seek(key, r) ==
  IF r.st # OK THEN [st |-> r.st, values |-> <<>>, exhausted |-> FALSE]
  ELSE IF SeekFrom(r.ents, 1, key) > Len(r.ents)
  THEN [st |-> OK, values |-> <<>>, exhausted |-> FALSE]
  ELSE [st |-> OK, values |-> <<r.ents[SeekFrom(r.ents, 1, key)].value>>, exhausted |-> TRUE]

FetchBlockRead(key, r) ==
  IF r.st # OK THEN [st |-> r.st, values |-> <<>>, exhausted |-> FALSE]
  ELSE ScanBlock(r.ents, SeekFrom(r.ents, 1, key), key, <<>>)

\* Dir::Fetch on the data block of handle h
FetchBlock(key, h) == FetchBlockRead(key, ReadBlock("data", h))

\* the loop of Fetch over the index entries of a table, from position i on
RECURSIVE FetchBlocks(_, _, _, _)
RECURSIVE FetchBlocksNext(_, _, _, _, _)
FetchBlocks(ients, i, key, acc) ==
  IF i > Len(ients) THEN [st |-> OK, values |-> acc]
  ELSE FetchBlocksNext(ients, i, key, acc,
                       FetchBlock(key, [offset |-> ients[i].offset, size |-> ients[i].size]))

FetchBlocksNext(ients, i, key, acc, r) ==
  IF r.st # OK THEN [st |-> r.st, values |-> acc \o r.values]
  ELSE IF r.exhausted THEN [st |-> OK, values |-> acc \o r.values]
  ELSE FetchBlocks(ients, i + 1, key, acc \o r.values)

KeyMayMatchRead_strict(key, r) == IF r.st = OK THEN BloomKeyMayMatch(key, r.ents) ELSE FALSE

\* Dir::KeyMayMatch: a filter block that cannot be read matches every key
KeyMayMatchRead(key, r) == IF r.st = OK THEN BloomKeyMayMatch(key, r.ents) ELSE TRUE

KeyMayMatch(key, h) == KeyMayMatchRead(key, ReadBlock("indx", h))

FetchTableRead_absorbed(key, r) ==
  IF r.st # OK THEN [st |-> OK, values |-> <<>>]
  ELSE FetchBlocks(r.ents, SeekFrom(r.ents, 1, key), key, <<>>)

FetchTableRead(key, r) ==
  IF r.st # OK THEN [st |-> r.st, values |-> <<>>]
  ELSE FetchBlocks(r.ents, SeekFrom(r.ents, 1, key), key, <<>>)

\* Dir::Fetch on the table of handle h
FetchTable(key, h) ==
  IF KeyLess(key, h.smallest_key) \/ KeyLess(h.largest_key, key)
  THEN [st |-> OK, values |-> <<>>]
  ELSE IF h.filter_size # 0
          /\ ~KeyMayMatch(key, [offset |-> h.filter_offset, size |-> h.filter_size])
  THEN [st |-> OK, values |-> <<>>]
  ELSE FetchTableRead(key, ReadBlock("indx", [offset |-> h.offset, size |-> h.size]))

\* the entries of the epoch index under EpochKey(epoch, table)
TablesAt(epochs, epoch, table) ==
  {i \in 1..Len(epochs) : epochs[i].key = EpochKey(epoch, table)}

\* the loop of Dir::Get over the tables of an epoch, from table on
RECURSIVE GetTables(_, _, _, _)
RECURSIVE GetTablesNext(_, _, _, _, _)
GetTables(key, epoch, table, acc) ==
  IF TablesAt(rd.epochs, epoch, table) = {} THEN [st |-> OK, values |-> acc]
  ELSE GetTablesNext(key, epoch, table, acc,
                     FetchTable(key, rd.epochs[CHOOSE i \in TablesAt(rd.epochs, epoch, table)
                                                 : TRUE].handle))

GetTablesNext(key, epoch, table, acc, r) ==
  IF r.st # OK THEN [st |-> r.st, values |-> acc \o r.values]
  ELSE IF r.values # <<>> /\ opt.unique_keys THEN [st |-> OK, values |-> acc \o r.values]
  ELSE GetTables(key, epoch, table + 1, acc \o r.values)

\* what one Dir::Get hands to its saver, and the status it leaves
Get(key, epoch) == GetTables(key, epoch, 0, <<>>)

\* ParaSaveValue: the values of a Get as records of the shared buffer
Tagged(epoch, values) == [i \in 1..Len(values) |-> [epoch |-> epoch, value |-> values[i]]]

\* SaveValue: the values of a Get appended to the destination
RECURSIVE Concat(_)
Concat(values) == IF values = <<>> THEN <<>> ELSE Head(values) \o Concat(Tail(values))

\* the read context after Get(key, epoch) has run on it, with the saver
\* that parallel_reads selects; ran records the epochs a Get has searched
\* and gets how many Gets have searched each
AfterGet(ctx, epoch, r, parallel_reads) ==
  [ctx EXCEPT !.num_open_reads = @ - 1,
              !.ran = @ \cup {epoch},
              !.gets = [@ EXCEPT ![epoch] = @ + 1],
              !.status = r.st,
              !.dst = IF parallel_reads THEN @ ELSE @ \o Concat(r.values),
              !.buffer = IF parallel_reads THEN @ \o Tagged(epoch, r.values) ELSE @]

\* the submission loop of Dir::Read when Get runs inline, from epoch on
RECURSIVE InlineGets(_, _, _)
InlineGets(ctx, epoch, parallel_reads) ==
  IF epoch >= rd.num_epoches THEN ctx
  ELSE IF ctx.status # OK THEN ctx
  ELSE InlineGets(AfterGet([ctx EXCEPT !.num_open_reads = @ + 1], epoch,
                           Get(ctx.key, epoch), parallel_reads),
                  epoch + 1, parallel_reads)

\* the orders std::sort may leave the offsets in: by epoch, the records of
\* one epoch in any relative order
EpochOrders(buffer) ==
  {p \in [1..Len(buffer) -> 1..Len(buffer)] :
     /\ \A i, j \in 1..Len(buffer) : i # j => p[i] # p[j]
     /\ \A i \in 1..(Len(buffer) - 1) : buffer[p[i]].epoch <= buffer[p[i + 1]].epoch}

\* Dir::Merge, its sort having left the offsets in order
Merge(buffer, order) == Concat([i \in 1..Len(buffer) |-> buffer[order[i]].value])

NoContext ==
  [active |-> FALSE, key |-> <<>>, num_open_reads |-> 0, status |-> OK,
   dst |-> <<>>, buffer |-> <<>>, items |-> 0, ran |-> {},
   gets |-> [e \in 0..(kMaxEpoches - 1) |-> 0]]

\* what Dir::Read(key) leaves in the destination with parallel_reads off
SerialRead(key) == InlineGets([NoContext EXCEPT !.key = key], 0, FALSE)

NewDir ==
  [st |-> "closed", status |-> OK, num_epoches |-> 0, epochs |-> <<>>,
   ctx |-> NoContext, ret |-> [op |-> "none"], nreads |-> 0,
   bad |-> {}, cut |-> 0, icut |-> 0, refs |-> 0]

\* the Dir constructor takes one reference on each log source
OpenRead(footer, r) ==
  IF r.st # OK THEN [NewDir EXCEPT !.st = "failed", !.status = r.st]
  ELSE [NewDir EXCEPT !.st = "open", !.num_epoches = footer.num_epoches, !.epochs = r.ents,
                      !.refs = 2]

\* Open without the decoding of the footer
Open_undecoded(indx) ==
  IF indx.ext = <<>> \/ indx.ext[Len(indx.ext)].kind # "footer"
  THEN [NewDir EXCEPT !.st = "failed", !.status = Corruption]
  ELSE OpenRead(indx.ext[Len(indx.ext)].ents,
                ReadBlock("indx", [offset |-> indx.ext[Len(indx.ext)].ents.offset,
                                 size |-> indx.ext[Len(indx.ext)].ents.size]))

\* Dir::Open on the index log indx, of which rd.icut bytes are missing: the
\* last kFooterEncodeLength bytes decode when they are the footer Finish wrote
Open(indx) ==
  IF indx.off - rd.icut < kFooterEncodeLength
  THEN [NewDir EXCEPT !.st = "failed", !.status = Corruption]
  ELSE IF \/ indx.ext = <<>>
          \/ indx.ext[Len(indx.ext)].kind # "footer"
          \/ indx.ext[Len(indx.ext)].off # indx.off - rd.icut - kFooterEncodeLength
  THEN [NewDir EXCEPT !.st = "failed", !.status = Corruption]
  ELSE OpenRead(indx.ext[Len(indx.ext)].ents,
                ReadBlock("indx", [offset |-> indx.ext[Len(indx.ext)].ents.offset,
                                 size |-> indx.ext[Len(indx.ext)].ents.size]))

\* nothing of the writer is running
Quiescent == mu = NULL /\ pool = 0 /\ \A t \in Threads : pc[t] = "idle"

WriterUnchanged == UNCHANGED <<opt, tl, dl, bufs, mu, waiting, pc, loc, pool, hist, nops, sh>>

(* Dir::Open on the logs as they are *)
DirOpen ==
  /\ rd.st = "closed" /\ Quiescent
  /\ rd' = [Open(tl.indx) EXCEPT !.bad = rd.bad, !.cut = rd.cut, !.icut = rd.icut]
  /\ WriterUnchanged

(* a byte of one finalized block of the finished logs changes on storage *)
Mutate(log, i) ==
  /\ rd.st = "closed" /\ rd.bad = {} /\ rd.cut = 0 /\ rd.icut = 0
  /\ Quiescent /\ tl.finished /\ ok(tl)
  /\ ~opt.skip_checksums /\ opt.verify_checksums
  /\ i \in 1..Len(tl[log].ext) /\ tl[log].ext[i].kind \in BlockKinds
  /\ rd' = [rd EXCEPT !.bad = {<<log, i>>}]
  /\ WriterUnchanged

(* the data log loses its last byte on storage *)
Truncate ==
  /\ rd.st = "closed" /\ rd.bad = {} /\ rd.cut = 0 /\ rd.icut = 0
  /\ Quiescent /\ tl.finished /\ ok(tl)
  /\ tl.data.off > 0
  /\ rd' = [rd EXCEPT !.cut = 1]
  /\ WriterUnchanged

(* the index log loses its last byte on storage *)
TruncateIndex ==
  /\ rd.st = "closed" /\ rd.bad = {} /\ rd.cut = 0 /\ rd.icut = 0
  /\ Quiescent /\ tl.finished /\ ok(tl)
  /\ tl.indx.off > 0
  /\ rd' = [rd EXCEPT !.icut = 1]
  /\ WriterUnchanged

(* Dir::Read up to its wait: the submission loop, which runs the Gets
   inline unless they are handed to the reader pool *)
ReadCall(key) ==
  /\ rd.st = "open" /\ ~rd.ctx.active /\ rd.nreads < MaxReads
  /\ rd' = [rd EXCEPT
              !.nreads = @ + 1,
              !.ret = [op |-> "none"],
              !.ctx = IF opt.parallel_reads /\ opt.reader_pool
                      THEN [NoContext EXCEPT !.active = TRUE, !.key = key,
                                             !.num_open_reads = rd.num_epoches,
                                             !.items = rd.num_epoches]
                      ELSE InlineGets([NoContext EXCEPT !.active = TRUE, !.key = key], 0,
                                      opt.parallel_reads)]
  /\ WriterUnchanged

(* Dir::BGWork: a pool thread runs the Get of one queued item.  The item
   is a local of the submission loop that has ended by now, so the epoch
   the thread finds in it is not determined *)
DirBGWork(epoch) ==
  /\ rd.ctx.active /\ rd.ctx.items > 0
  /\ epoch \in 0..(rd.num_epoches - 1)
  /\ rd' = [rd EXCEPT
              !.ctx = IF rd.ctx.status # OK
                      THEN [@ EXCEPT !.items = @ - 1]
                      ELSE [AfterGet(@, epoch, Get(rd.ctx.key, epoch), TRUE)
                              EXCEPT !.items = @ - 1]]
  /\ WriterUnchanged

(* the rest of Dir::Read once no Get is outstanding *)
ReadDone ==
  /\ rd.ctx.active /\ rd.ctx.num_open_reads = 0
  /\ \E order \in EpochOrders(rd.ctx.buffer) :
       rd' = [rd EXCEPT
                !.ctx = NoContext,
                !.ret = [op |-> "read", key |-> rd.ctx.key, st |-> rd.ctx.status,
                         ran |-> rd.ctx.ran, gets |-> rd.ctx.gets,
                         dst |-> IF rd.ctx.status = OK /\ opt.parallel_reads
                                 THEN rd.ctx.dst \o Merge(rd.ctx.buffer, order)
                                 ELSE rd.ctx.dst]]
  /\ WriterUnchanged

(***************************************************************************)
(* Construction and the fixtures.                                          *)
(***************************************************************************)
FlushOptions == [dry_run : BOOLEAN, no_wait : BOOLEAN, epoch_flush : BOOLEAN, finalize : BOOLEAN]

Flush(dry_run, no_wait, epoch_flush, finalize) ==
  [dry_run |-> dry_run, no_wait |-> no_wait, epoch_flush |-> epoch_flush,
   finalize |-> finalize]

BaseOptions ==
  [non_blocking |-> FALSE, pool |-> TRUE,
   producers |-> {"p1"}, workers |-> {"w1"},
   tb_bytes |-> 4, memtable_util |-> 100,
   unique_keys |-> TRUE,
   block_size |-> 32, block_util |-> 100, block_padding |-> FALSE, block_buffer |-> 64,
   bf_bits_per_key |-> 0, bf_bytes |-> 0,
   tail_padding |-> FALSE, index_buffer |-> 16,
   skip_checksums |-> FALSE, verify_checksums |-> TRUE,
   parallel_reads |-> FALSE, reader_pool |-> FALSE,
   keys |-> {<<1>>, <<2>>},
   flushes |-> FlushOptions,
   memtable_buffer |-> 128, lg_parts |-> 0, key_size |-> 1, value_size |-> 1,
   max_ops |-> MaxOps]

\* <<data, index>>: the number of Lwrite calls each sink answers before
\* one fails, -1 for a sink that never fails
Faults == {<<-1, -1>>, <<0, -1>>, <<-1, 0>>}

InitShared(options, faults, shared_faults) ==
  /\ opt \in options
  /\ \E f \in shared_faults : sh = NewShared(f)
  /\ \E f \in faults : tl = NewTableLogger(f[1], f[2])
  /\ dl = [NewDirLogger EXCEPT
             !.filter = IF opt.bf_bits_per_key # 0
                        THEN BloomReset(opt.bf_bits_per_key, opt.bf_bytes) ELSE NoFilter]
  /\ bufs = [b \in {"buf0", "buf1"} |-> NewWriteBuffer]
  /\ mu = NULL
  /\ waiting = {}
  /\ pc = [t \in Threads |-> "idle"]
  /\ loc = [t \in Threads |-> NoLocals]
  /\ pool = 0
  /\ hist = [ret |-> [p \in Producers |-> NoReturn], acked |-> <<>>, full |-> FALSE,
             late |-> {}, flushed |-> {}, commits |-> FALSE,
             empty_epoch |-> FALSE]
  /\ nops = 0
  /\ rd = NewDir

InitWith(options, faults) == InitShared(options, faults, {-1})

\* the value of the n-th call
ValueOf(n) == <<n>>

NextDL ==
  \/ \E p \in Producers, key \in opt.keys : AddCall(p, key, ValueOf(nops + 1)) /\ UNCHANGED <<rd, sh>>
  \/ \E p \in Producers, fo \in opt.flushes : FlushCall(p, fo) /\ UNCHANGED <<rd, sh>>
  \/ \E p \in Producers : FlushWake(p) /\ UNCHANGED <<rd, sh>>
  \/ \E p \in Producers : FlushDoneWake(p) /\ UNCHANGED <<rd, sh>>
  \/ \E p \in Producers : PrepareWake(p) /\ UNCHANGED <<rd, sh>>
  \/ \E p \in Producers : PrepareStep(p) /\ UNCHANGED <<rd, sh>>
  \/ \E w \in Workers : BGWork(w) /\ UNCHANGED <<rd, sh>>
  \/ \E t \in Threads : CompactMemtable(t) /\ UNCHANGED <<rd, sh>>
  \/ \E t \in Threads : CompactDone(t) /\ UNCHANGED <<rd, sh>>
  \/ \E p \in Producers : WaitCall(p) /\ UNCHANGED <<rd, sh>>
  \/ \E p \in Producers : WaitWake(p) /\ UNCHANGED <<rd, sh>>

\* two producers, every combination of pool/inline and
\* blocking/non-blocking
OptionsDL ==
  {[BaseOptions EXCEPT !.non_blocking = nb, !.pool = pl,
                       !.producers = {"p1", "p2"},
                       !.unique_keys = FALSE,
                       !.keys = {<<1>>},
                       !.flushes = {Flush(FALSE, FALSE, FALSE, FALSE),
                                    Flush(FALSE, TRUE, FALSE, FALSE),
                                    Flush(TRUE, FALSE, FALSE, FALSE),
                                    Flush(FALSE, FALSE, TRUE, TRUE)}]
     : nb \in BOOLEAN, pl \in BOOLEAN}

InitDL == InitWith(OptionsDL, Faults)

SpecDL == InitDL /\ [][NextDL]_vars

\* blocking producers and a compaction pool; every thread that can take a
\* step of a call in progress, the pool worker included, eventually runs
Progress ==
  \/ \E p \in Producers : FlushWake(p) /\ UNCHANGED <<rd, sh>>
  \/ \E p \in Producers : FlushDoneWake(p) /\ UNCHANGED <<rd, sh>>
  \/ \E p \in Producers : PrepareWake(p) /\ UNCHANGED <<rd, sh>>
  \/ \E p \in Producers : PrepareStep(p) /\ UNCHANGED <<rd, sh>>
  \/ \E w \in Workers : BGWork(w) /\ UNCHANGED <<rd, sh>>
  \/ \E t \in Threads : CompactDone(t) /\ UNCHANGED <<rd, sh>>
  \/ \E p \in Producers : WaitWake(p) /\ UNCHANGED <<rd, sh>>

\* the sinks answer: the body of a compaction, which needs nothing but its
\* thread, comes to its end
SinksAnswer == \A t \in Threads : []<>(pc[t] # "compact")

OptionsLV ==
  {[BaseOptions EXCEPT !.producers = {"p1", "p2"},
                       !.unique_keys = FALSE,
                       !.keys = {<<1>>},
                       !.flushes = {Flush(FALSE, FALSE, FALSE, FALSE),
                                    Flush(FALSE, TRUE, FALSE, FALSE),
                                    Flush(FALSE, FALSE, TRUE, TRUE)}]}

InitLV == InitWith(OptionsLV, Faults)

SpecLV == InitLV /\ [][NextDL]_vars /\ WF_vars(Progress) /\ SinksAnswer

\* non-blocking producers, with room for one more call: nobody ever waits
\* for buffer space
NextNB ==
  \/ \E p \in Producers, key \in opt.keys : AddCall(p, key, ValueOf(nops + 1)) /\ UNCHANGED <<rd, sh>>
  \/ \E p \in Producers, fo \in opt.flushes : FlushCall(p, fo) /\ UNCHANGED <<rd, sh>>
  \/ \E p \in Producers : FlushDoneWake(p) /\ UNCHANGED <<rd, sh>>
  \/ \E p \in Producers : PrepareStep(p) /\ UNCHANGED <<rd, sh>>
  \/ \E w \in Workers : BGWork(w) /\ UNCHANGED <<rd, sh>>
  \/ \E t \in Threads : CompactMemtable(t) /\ UNCHANGED <<rd, sh>>
  \/ \E t \in Threads : CompactDone(t) /\ UNCHANGED <<rd, sh>>

OptionsNB ==
  {[BaseOptions EXCEPT !.non_blocking = TRUE, !.pool = pl,
                       !.producers = {"p1", "p2"},
                       !.unique_keys = FALSE,
                       !.keys = {<<1>>},
                       !.flushes = {Flush(FALSE, FALSE, FALSE, FALSE)},
                       !.max_ops = MaxOps + 1]
     : pl \in BOOLEAN}

InitNB == InitWith(OptionsNB, Faults)

SpecNB == InitNB /\ [][NextNB]_vars

\* one producer with inline compaction writes a directory, which is then
\* opened and read
AddedKeys == {hist.acked[i].key : i \in 1..Len(hist.acked)}

NextRT ==
  \/ \E key \in opt.keys :
        /\ rd.st = "closed" /\ (opt.unique_keys => key \notin AddedKeys)
        /\ AddCall("p1", key, ValueOf(nops + 1)) /\ UNCHANGED <<rd, sh>>
  \/ \E fo \in opt.flushes : rd.st = "closed" /\ FlushCall("p1", fo) /\ UNCHANGED <<rd, sh>>
  \/ PrepareStep("p1") /\ UNCHANGED <<rd, sh>>
  \/ CompactMemtable("p1") /\ UNCHANGED <<rd, sh>>
  \/ CompactDone("p1") /\ UNCHANGED <<rd, sh>>
  \/ DirOpen
  \/ \E key \in opt.keys : ReadCall(key)
  \/ \E epoch \in 0..(kMaxEpoches - 1) : DirBGWork(epoch)
  \/ ReadDone

OptionsRTBase ==
  [BaseOptions EXCEPT !.pool = FALSE,
                      !.flushes = {Flush(FALSE, FALSE, TRUE, FALSE),
                                   Flush(FALSE, FALSE, FALSE, TRUE)},
                      !.max_ops = MaxOps + 3]

OptionsRT ==
  {[OptionsRTBase EXCEPT !.keys = {<<1>>, <<2>>, <<3>>, <<4>>},
                         !.tb_bytes = 12, !.block_size = 24, !.block_buffer = 32],
   [OptionsRTBase EXCEPT !.keys = {<<1>>, <<2>>, <<3>>, <<4>>},
                         !.tb_bytes = 8, !.block_size = 16, !.block_buffer = 64],
   [OptionsRTBase EXCEPT !.unique_keys = FALSE,
                         !.tb_bytes = 8, !.block_size = 24, !.block_buffer = 64],
   [OptionsRTBase EXCEPT !.unique_keys = FALSE, !.parallel_reads = TRUE,
                         !.tb_bytes = 8, !.block_size = 24, !.block_buffer = 64],
   [OptionsRTBase EXCEPT !.unique_keys = FALSE, !.parallel_reads = TRUE,
                         !.reader_pool = TRUE,
                         !.tb_bytes = 8, !.block_size = 24, !.block_buffer = 64]}

InitRT == InitWith(OptionsRT, {<<-1, -1>>})

SpecRT == InitRT /\ [][NextRT]_vars

\* the same writer; a block of the finished logs may be damaged on storage
\* before the directory is opened.  A Read whose wait is over goes on.
NextRC ==
  \/ NextRT
  \/ \E log \in {"data", "indx"} : \E i \in 1..Len(tl[log].ext) : Mutate(log, i)
  \/ Truncate
  \/ TruncateIndex

\* with one probe in 64 bits the keys <<1>> and <<65>> set the same bit
OptionsRC ==
  {[OptionsRTBase EXCEPT !.unique_keys = FALSE, !.max_ops = MaxOps + 2,
                         !.parallel_reads = pr[1], !.reader_pool = pr[2],
                         !.keys = {<<1>>, <<65>>, <<66>>},
                         !.bf_bits_per_key = 2, !.bf_bytes = 8,
                         !.tb_bytes = 8, !.block_size = 24, !.block_buffer = 64] :
     pr \in {<<FALSE, FALSE>>, <<TRUE, FALSE>>, <<TRUE, TRUE>>}}

InitRC == InitWith(OptionsRC, {<<-1, -1>>})

SpecRC == InitRC /\ [][NextRC]_vars /\ WF_vars(ReadDone)

\* every pair acknowledged so far was there when an epoch flush and when a
\* final flush were called, and both returned OK
Flushed(epoch_flush) ==
  /\ \E f \in hist.flushed : f.fo.finalize /\ f.snap = Len(hist.acked)
  /\ epoch_flush =>
       \E f \in hist.flushed : f.fo.epoch_flush /\ f.snap = Len(hist.acked)

DataBlocks == {i \in 1..Len(tl.data.ext) : tl.data.ext[i].kind = "data"}

\* the values acknowledged for key, in the order of the Add calls
RECURSIVE Written(_, _)
Written(acked, key) ==
  IF acked = <<>> THEN <<>>
  ELSE (IF Head(acked).key = key THEN Head(acked).value ELSE <<>>)
         \o Written(Tail(acked), key)

\* C1: with distinct keys, several tables and several blocks, after all
\* Adds, an epoch flush and a final flush returned OK, Read(k) of a written
\* key returns OK and the value written for it
C1_RoundTrip ==
  (/\ rd.ret.op = "read" /\ opt.unique_keys /\ rd.ret.key \in AddedKeys
   /\ Flushed(TRUE)
   /\ Len(tl.tabs) >= 2 /\ Cardinality(DataBlocks) >= 2) =>
     rd.ret.st = OK /\ rd.ret.dst = Written(hist.acked, rd.ret.key)

\* C2: with unique_keys off, once everything acknowledged was flushed by a
\* final flush, a serial Read(k) returns the values written for k in the
\* order they were passed to Add
C2_InsertionOrder ==
  (/\ rd.ret.op = "read" /\ ~opt.unique_keys /\ ~opt.parallel_reads
   /\ Flushed(FALSE)) =>
     rd.ret.st = OK /\ rd.ret.dst = Written(hist.acked, rd.ret.key)

\* C3: a Read with parallel_reads on leaves in the destination what the
\* serial Read of the same key leaves there
C3_ParallelEqualsSerial ==
  (rd.ret.op = "read" /\ opt.parallel_reads) =>
     /\ rd.ret.st = SerialRead(rd.ret.key).status
     /\ rd.ret.dst = SerialRead(rd.ret.key).dst

(***************************************************************************)
(* The table logger driven directly: any sequence of its calls that keeps  *)
(* to their REQUIRES clauses (keys in order, nothing after Finish).        *)
(***************************************************************************)
TLCall(name, s) ==
  /\ ~tl.finished /\ nops < opt.max_ops
  /\ nops' = nops + 1
  /\ tl' = s
  /\ hist' = [hist EXCEPT !.late = IF ok(tl) THEN @ ELSE @ \cup {name},
                          !.commits = @ \/ name = "Commit",
                          !.empty_epoch = @ \/ (/\ name = "MakeEpoch" /\ ok(tl) /\ ok(s)
                                                /\ s.num_epochs = tl.num_epochs)]
  /\ UNCHANGED <<opt, dl, bufs, mu, waiting, pc, loc, pool, rd, sh>>

InOrder(key) ==
  \/ tl.last_key = <<>>
  \/ KeyLess(tl.last_key, key)
  \/ ~opt.unique_keys /\ key = tl.last_key

DoAdd(key, value) == InOrder(key) /\ TLCall("Add", TLAdd(tl, key, value))

DoEndBlock == TLCall("EndBlock", EndBlock(tl))

DoCommit == TLCall("Commit", Commit(tl))

\* EndTable without a filter block, or with one that holds the keys of the table
DoEndTable ==
  \E bf \in {NoFilter, AddAllKeys(BloomReset(8, 8), tl.cur)} :
     TLCall("EndTable", EndTable(tl, bf))

DoMakeEpoch == TLCall("MakeEpoch", MakeEpoch(tl))

DoFinish == TLCall("Finish", TLFinish(tl))

(* DirLogger::PreClose: both logs are closed under the table logger *)
PreClose ==
  /\ ~tl.data.closed /\ ~tl.indx.closed
  /\ tl' = [tl EXCEPT !.data = Lclose(@), !.indx = Lclose(@)]
  /\ UNCHANGED <<opt, dl, bufs, mu, waiting, pc, loc, pool, hist, nops, rd, sh>>

NextTL ==
  \/ \E key \in opt.keys : DoAdd(key, ValueOf(nops + 1))
  \/ DoEndBlock
  \/ DoCommit
  \/ DoEndTable
  \/ DoMakeEpoch
  \/ DoFinish

OptionsTL ==
  {[BaseOptions EXCEPT !.block_size = bs, !.block_buffer = bb,
                       !.unique_keys = FALSE,
                       !.tail_padding = pad, !.block_padding = pad,
                       !.index_buffer = 64, !.max_ops = MaxTLOps]
     : bs \in {16, 24}, bb \in {32, 64}, pad \in BOOLEAN}

FaultsTL == {<<-1, -1>>, <<0, -1>>, <<1, -1>>, <<-1, 0>>, <<-1, 1>>, <<-1, 2>>}

InitTL == InitWith(OptionsTL, FaultsTL)

SpecTL == InitTL /\ [][NextTL]_vars

\* the table logger driven directly while its owner may close the logs
NextLS ==
  \/ NextTL
  \/ PreClose

SpecLS == InitTL /\ [][NextLS]_vars

\* the table logger driven to kMaxTablesPerEpoch tables and kMaxEpoches
\* epochs: one key, no failing write, tables and epochs only
NextCap ==
  \/ \E key \in opt.keys : DoAdd(key, ValueOf(nops + 1))
  \/ DoEndTable
  \/ DoMakeEpoch

OptionsCap ==
  {[BaseOptions EXCEPT !.block_size = bs, !.block_buffer = 64,
                       !.unique_keys = FALSE, !.keys = {<<1>>},
                       !.index_buffer = 64, !.max_ops = MaxCapOps]
     : bs \in {16, 24}}

InitCap == InitWith(OptionsCap, {<<-1, -1>>})

SpecCap == InitCap /\ [][NextCap]_vars

(***************************************************************************)
(* Two partitions on one data sink.  Each partition's thread calls Add on  *)
(* its own table logger; the Commit that Add makes runs step by step:      *)
(* Lock, Ltell, Lwrite with Unlock.                                        *)
(***************************************************************************)
\* LogSink::Lock returns once nobody holds the mutex of the sink
LockFree_unlocked(holder) == TRUE

LockFree(holder) == holder = NULL

(* TableLogger::Add of partition i, up to the Lock of Commit when the block
   buffer is about to be full, and to its end otherwise *)
ShAdd(i, key, value) ==
  /\ sh.pc[i] = "idle" /\ nops < opt.max_ops
  /\ sh.tl[i].last_key = <<>> \/ ~KeyLess(key, sh.tl[i].last_key)
  /\ nops' = nops + 1
  /\ sh' = IF ok(sh.tl[i]) /\ NeedsCommit(AddUpToCommit(sh.tl[i], key))
           THEN [sh EXCEPT !.tl[i] = AddUpToCommit(sh.tl[i], key),
                           !.pc[i] = "commit", !.key[i] = key, !.value[i] = value]
           ELSE [sh EXCEPT !.tl[i] = TLAdd(sh.tl[i], key, value)]
  /\ UNCHANGED <<opt, tl, dl, bufs, mu, waiting, pc, loc, pool, hist, rd>>

(* data_sink_->Lock() *)
ShLock(i) ==
  /\ sh.pc[i] = "commit" /\ LockFree(sh.mu)
  /\ sh' = [sh EXCEPT !.mu = i, !.pc[i] = "locked"]
  /\ UNCHANGED <<opt, tl, dl, bufs, mu, waiting, pc, loc, pool, hist, nops, rd>>

(* const size_t offset = data_sink_->Ltell() *)
ShLtell(i) ==
  /\ sh.pc[i] = "locked"
  /\ sh' = [sh EXCEPT !.offset[i] = Ltell(sh.data), !.pc[i] = "told",
                      !.tl[i] = Require(@, @.num_uncommitted_data = @.num_uncommitted_index,
                                        "Commit:uncommitted")]
  /\ UNCHANGED <<opt, tl, dl, bufs, mu, waiting, pc, loc, pool, hist, nops, rd>>

\* the sink after the Lwrite of the block buffer of s: the blocks land where
\* the log ends now
ShLwriteTo(sink, s) ==
  Lwrite(sink, BufferExtents(s, Ltell(sink)), BufferStoreSize(s))

(* Lwrite of the block buffer, Unlock, the rest of Commit and of Add *)
ShLwrite(i) ==
  /\ sh.pc[i] = "told"
  /\ sh' = [sh EXCEPT
              !.data = ShLwriteTo(sh.data, sh.tl[i]).sink,
              !.mu = IF @ = i THEN NULL ELSE @,
              !.tl[i] = AddToBlock(
                          [CommitWritten(@, sh.offset[i], ShLwriteTo(sh.data, sh.tl[i]), TRUE)
                             EXCEPT !.data = NewSink(-1)],
                          sh.key[i], sh.value[i]),
              !.pc[i] = "idle", !.offset[i] = 0, !.key[i] = <<>>, !.value[i] = <<>>,
              !.commits = IF ShLwriteTo(sh.data, sh.tl[i]).st = OK
                          THEN @ \cup {[part |-> i, told |-> sh.offset[i],
                                        at |-> Ltell(sh.data)]}
                          ELSE @]
  /\ UNCHANGED <<opt, tl, dl, bufs, mu, waiting, pc, loc, pool, hist, nops, rd>>

NextSH ==
  \/ \E i \in Partitions, key \in opt.keys : ShAdd(i, key, ValueOf(nops + 1))
  \/ \E i \in Partitions : ShLock(i)
  \/ \E i \in Partitions : ShLtell(i)
  \/ \E i \in Partitions : ShLwrite(i)

OptionsSH ==
  {[BaseOptions EXCEPT !.block_size = 16, !.block_buffer = bb,
                       !.unique_keys = FALSE, !.max_ops = MaxTLOps + 1]
     : bb \in {32, 64}}

InitSH == InitShared(OptionsSH, {<<-1, -1>>}, {-1, 1})

SpecSH == InitSH /\ [][NextSH]_vars

(* BloomBlock::AddKey and BloomBlock::Reset on the filter block of the
   directory, built with every bits_per_key up to MaxBitsPerKey *)
BFAddKey(key) ==
  /\ dl.filter.on /\ nops < opt.max_ops
  /\ dl' = [dl EXCEPT !.filter = BloomAddKey(@, key)]
  /\ nops' = nops + 1
  /\ UNCHANGED <<opt, tl, bufs, mu, waiting, pc, loc, pool, hist, rd, sh>>

BFReset ==
  /\ dl.filter.on /\ dl.filter.bits # {}
  /\ dl' = [dl EXCEPT !.filter = BloomReset(opt.bf_bits_per_key, opt.bf_bytes)]
  /\ UNCHANGED <<opt, tl, bufs, mu, waiting, pc, loc, pool, hist, nops, rd, sh>>

NextBF ==
  \/ \E key \in opt.keys : BFAddKey(key)
  \/ BFReset

OptionsBF ==
  {[BaseOptions EXCEPT !.bf_bits_per_key = b, !.bf_bytes = 2, !.max_ops = 2]
     : b \in 1..MaxBitsPerKey}

InitBF == InitWith(OptionsBF, {<<-1, -1>>})

SpecBF == InitBF /\ [][NextBF]_vars

(* the sizing part of the DirLogger constructor *)
DirLoggerSizing ==
  /\ ~dl.size.built
  /\ \E entries \in EntriesPerTb(opt) : dl' = [dl EXCEPT !.size = Sizing(opt, entries)]
  /\ UNCHANGED <<opt, tl, bufs, mu, waiting, pc, loc, pool, hist, nops, rd, sh>>

NextSZ == DirLoggerSizing

OptionsSZ ==
  {[BaseOptions EXCEPT !.memtable_buffer = mb, !.lg_parts = lg, !.block_buffer = bb,
                       !.key_size = ks, !.value_size = vs, !.bf_bits_per_key = bf]
     : mb \in {64, 96, 128, 4096}, lg \in 0..2, bb \in {8, 16, 32, 64},
       ks \in {1, 8}, vs \in {0, 1, 128}, bf \in {0, 8, 14}}

InitSZ == InitWith(OptionsSZ, {<<-1, -1>>})

SpecSZ == InitSZ /\ [][NextSZ]_vars

\* what a failed table logger must leave alone: its status, both log sinks
\* and the index and meta blocks
Sticky == <<tl.status, tl.data, tl.indx, tl.index_block, tl.meta_block>>

\* C9: once status_ is non-OK no call changes it, writes to either log
\* sink, or adds an index or meta entry
C9_StickyStatus == [][~ok(tl) => Sticky' = Sticky]_vars

\* Add, EndTable and Finish have all been called on a failed table logger
C9_Witness == ~ok(tl) /\ {"Add", "EndTable", "Finish"} \subseteq hist.late

(***************************************************************************)
(* The directory logger under concurrent producers.                        *)
(***************************************************************************)
Compacting == {t \in Threads : pc[t] \in {"compact", "compact_lock"}}

\* the executions of DoCompaction that exist: queued on the pool or running
NumCompactions == pool + Cardinality(Compacting)

MemFull == CurrentBufferSize(bufs[dl.mem_buf]) >= MemtableThreshold

\* C4: at most one DoCompaction/CompactMemtable execution exists at any
\* time, has_bg_compaction_ is true exactly while it exists, and a task is
\* scheduled or started only while has_bg_compaction_ is false
C4_OneCompaction ==
  [][/\ NumCompactions' <= 1
     /\ NumCompactions' = (IF dl'.has_bg_compaction THEN 1 ELSE 0)
     /\ (NumCompactions' > NumCompactions => ~dl.has_bg_compaction)]_vars

\* a compaction runs while another producer's swap has to wait for it
C4_Witness ==
  /\ \E t \in Threads : pc[t] = "compact"
  /\ \E p \in Producers : pc[p] = "prepare_wait"

\* C5: whenever the mutex is free, mem_buf_ and imm_buf_ are different
\* buffers, and no producer has called WriteBuffer::Add on a buffer that
\* FinishAndSort has already finished
C5_SwapAtomic ==
  /\ mu = NULL => dl.mem_buf # dl.imm_buf
  /\ "WriteBuffer::Add:finished" \notin dl.viol

\* C6 as stated: a non-blocking Add never waits, and with the memtable full
\* and imm_buf_ non-NULL it returns BufferFull
C6_AlwaysBufferFull ==
  [][\A p \in Producers :
       (opt.non_blocking /\ loc[p].op = "add" /\ pc'[p] # pc[p]) =>
          /\ pc'[p] # "prepare_wait"
          /\ (pc[p] = "prepare" /\ MemFull /\ dl.imm_buf # NULL) =>
                (pc'[p] = "idle" /\ hist'.ret[p].st = "BufferFull")]_vars

\* C6: a non-blocking Add never waits on the condition variable; with the
\* memtable full and imm_buf_ non-NULL it returns at once, BufferFull while
\* the table logger is OK and the table logger's status once it is not
C6_NonBlockingAdd ==
  [][\A p \in Producers :
       (opt.non_blocking /\ loc[p].op = "add" /\ pc'[p] # pc[p]) =>
          /\ pc'[p] # "prepare_wait"
          /\ (pc[p] = "prepare" /\ MemFull /\ dl.imm_buf # NULL) =>
                /\ pc'[p] = "idle"
                /\ hist'.ret[p].st = (IF ok(tl) THEN "BufferFull" ELSE tl.status)]_vars

\* both buffers are occupied and a non-blocking Add has returned BufferFull
C6_Witness ==
  /\ opt.non_blocking /\ MemFull /\ dl.imm_buf # NULL /\ ok(tl)
  /\ \E p \in Producers : hist.ret[p].op = "add" /\ hist.ret[p].st = "BufferFull"

\* C7: with non_blocking, an Add called after some Add returned BufferFull,
\* with no compaction left in flight and the table logger OK, returns OK
\* and appends its pair to the active memtable
C7_Recoverable ==
  [][\A p \in Producers :
       (/\ opt.non_blocking /\ loc[p].op = "add" /\ loc[p].pre
        /\ pc[p] = "prepare" /\ pc'[p] = "idle" /\ ok(tl)) =>
          /\ hist'.ret[p].st = OK
          /\ bufs'[dl.mem_buf].entries =
               Append(bufs[dl.mem_buf].entries,
                      [key |-> loc[p].key, value |-> loc[p].value])]_vars

\* an Add has returned OK after an earlier BufferFull and a finished compaction
C7_Witness ==
  /\ opt.non_blocking
  /\ \E p \in Producers :
       hist.ret[p].op = "add" /\ hist.ret[p].pre /\ hist.ret[p].st = OK

\* the pairs that were passed to the table logger in tables it has ended
Ended == {tl.tabs[i].ents[j] : <<i, j>> \in
            {x \in (1..Len(tl.tabs)) \X (1..MaxOps + 1) : x[2] <= Len(tl.tabs[x[1]].ents)}}

\* C8: when a Flush with no_wait=false and dry_run=false has returned OK,
\* every pair whose Add returned OK before the Flush was called is in a
\* table the table logger has ended
C8_FlushWaits ==
  \A p \in Producers :
    (/\ hist.ret[p].op = "flush" /\ hist.ret[p].st = OK
     /\ ~hist.ret[p].fo.no_wait /\ ~hist.ret[p].fo.dry_run) =>
       \A i \in 1..hist.ret[p].snap : hist.acked[i] \in Ended

\* the state a call must leave alone once the table logger has failed
Guarded == <<bufs, dl.mem_buf, dl.imm_buf, dl.has_bg_compaction, pool>>

\* producer p takes a step of a call that began after the table logger
\* latched a status: the call itself, or a later step of it
LatchedStep(p) ==
  /\ pc'[p] # pc[p] \/ loc'[p] # loc[p]
  /\ IF loc[p].op = "none" THEN ~ok(tl) ELSE loc[p].err # OK

\* producer p returns from an Add or a non-dry-run Flush that it called
\* after the table logger latched a status
LatchedReturn(p) ==
  /\ hist'.ret[p] # hist.ret[p]
  /\ hist'.ret[p].op \in {"add", "flush"}
  /\ hist'.ret[p].err # OK
  /\ hist'.ret[p].op = "flush" => ~hist'.ret[p].fo.dry_run

\* C10 as stated: an Add or a non-dry-run Flush called after the table
\* logger latched a status returns that status and changes nothing
C10_AlwaysLatched ==
  [][\A p \in Producers :
       /\ LatchedStep(p) => Guarded' = Guarded
       /\ LatchedReturn(p) => hist'.ret[p].st = hist'.ret[p].err]_vars

\* C10: an Add called after the table logger latched a status returns that
\* status; so does a non-dry-run Flush, unless imm_buf_ is still non-NULL in
\* non-blocking mode, where it returns BufferFull; neither inserts, swaps
\* buffers or schedules a compaction
C10_Latched ==
  [][\A p \in Producers :
       /\ LatchedStep(p) => Guarded' = Guarded
       /\ LatchedReturn(p) =>
            hist'.ret[p].st =
              (IF hist'.ret[p].op = "flush" /\ opt.non_blocking /\ dl.imm_buf # NULL
               THEN "BufferFull" ELSE hist'.ret[p].err)]_vars

\* an Add and a non-dry-run Flush have both returned the latched status
C10_Witness ==
  /\ \E p \in Producers :
       hist.ret[p].op = "add" /\ hist.ret[p].err # OK /\ hist.ret[p].st = hist.ret[p].err
  /\ \E p \in Producers :
       /\ hist.ret[p].op = "flush" /\ ~hist.ret[p].fo.dry_run
       /\ hist.ret[p].err # OK /\ hist.ret[p].st = hist.ret[p].err

\* C11: whenever DirLogger::Wait returns, no background compaction is
\* running, whatever the status of the table logger
C11_WaitUntilIdle ==
  \A p \in Producers : hist.ret[p].op = "wait" => ~hist.ret[p].bg

\* C12: once every Get that a Dir::Read submitted has run, the Read returns
C12_ReadReturns == (rd.ctx.active /\ rd.ctx.items = 0) ~> rd.ret.op = "read"

\* Finish has returned OK on a padded index log
FinishedPadded == opt.tail_padding /\ tl.finished /\ ok(tl)

\* where the footer was written
FooterOffset == tl.indx.ext[Len(tl.indx.ext)].off

\* C13 as stated: with tail_padding, after Finish returned OK the offset at
\* which the footer was written is a multiple of index_buffer
C13_PreFooterAligned ==
  FinishedPadded => FooterOffset % opt.index_buffer = 0

\* C13: with tail_padding, after Finish returned OK the footer is the end of
\* the index log and the size of the whole index log, footer included, is
\* a multiple of index_buffer
C13_FinalSizeAligned ==
  FinishedPadded =>
    /\ tl.indx.ext[Len(tl.indx.ext)].kind = "footer"
    /\ FooterOffset + kFooterEncodeLength = tl.indx.off
    /\ tl.indx.off % opt.index_buffer = 0

\* Finish has padded the index log of a directory that holds a table
C13_Witness ==
  /\ FinishedPadded /\ Len(tl.tabs) >= 1
  /\ \E i \in 1..Len(tl.indx.ext) : tl.indx.ext[i].kind = "pad"

\* the block handles of the index entries added to an index block so far
IndexedHandles ==
  {tl.index_block[i] : i \in 1..Len(tl.index_block)}
    \cup UNION {{tl.indx.ext[i].ents[j] : j \in 1..Len(tl.indx.ext[i].ents)} :
                 i \in {n \in 1..Len(tl.indx.ext) : tl.indx.ext[n].kind = "index"}}

\* C14: with block_padding and no sink error, the data log size and the
\* offset of every indexed block are multiples of block_size
C14_BlockAligned ==
  (opt.block_padding /\ ok(tl)) =>
     /\ tl.data.off % opt.block_size = 0
     /\ \A e \in IndexedHandles : e.offset % opt.block_size = 0

\* Finish has returned OK
Finished == tl.finished /\ ok(tl)

\* the positions in the index log of the blocks of one kind, in the order
\* they were written
RECURSIVE Written_at(_, _, _)
Written_at(ext, i, kind) ==
  IF i > Len(ext) THEN <<>>
  ELSE (IF ext[i].kind = kind THEN <<i>> ELSE <<>>) \o Written_at(ext, i + 1, kind)

\* the filter block written right after the index block at position i, as
\* the (offset, size) a table handle gives it
FilterAfter(ext, i, h) ==
  IF i < Len(ext) /\ ext[i + 1].kind = "filter"
  THEN h.filter_offset = ext[i + 1].off /\ h.filter_size = ext[i + 1].size
  ELSE h.filter_size = 0

\* meta entry k of the root meta block meta names index block k of the log
TableReachable(ext, meta, k, num_epoches) ==
  /\ meta[k].key[1] < num_epoches
  /\ meta[k].handle.offset = ext[Written_at(ext, 1, "index")[k]].off
  /\ meta[k].handle.size = ext[Written_at(ext, 1, "index")[k]].size
  /\ FilterAfter(ext, Written_at(ext, 1, "index")[k], meta[k].handle)

\* the footer names the one root meta block of the log, which has one entry
\* for each index block written
MetaReachable(ext, footer, m) ==
  /\ Written_at(ext, 1, "meta") = <<m>>
  /\ footer.offset = ext[m].off /\ footer.size = ext[m].size
  /\ footer.num_epoches = Cardinality({ext[m].ents[k].key[1] : k \in 1..Len(ext[m].ents)})
  /\ Len(ext[m].ents) = Len(Written_at(ext, 1, "index"))
  /\ \A k \in 1..Len(ext[m].ents) : TableReachable(ext, ext[m].ents, k, footer.num_epoches)

\* C15: once Finish has returned OK the footer is the last bytes of the
\* index log and names the root meta block, its epoch count is the number
\* of non-empty epochs, every table written has a meta entry of an epoch
\* below that count, with the handles of its index and filter blocks, and
\* Dir::Open accepts the log
C15_SelfDescribing ==
  Finished =>
    /\ tl.indx.ext[Len(tl.indx.ext)].kind = "footer"
    /\ FooterOffset + kFooterEncodeLength = tl.indx.off
    /\ \E m \in 1..Len(tl.indx.ext) :
          MetaReachable(tl.indx.ext, tl.indx.ext[Len(tl.indx.ext)].ents, m)
    /\ Open(tl.indx).st = "open"
    /\ Open(tl.indx).num_epoches = tl.num_epochs

\* Finish has returned OK on a log of several tables, one with a filter
C15_Witness ==
  /\ Finished /\ Len(tl.tabs) >= 2
  /\ \E i \in 1..Len(tl.indx.ext) : tl.indx.ext[i].kind = "filter"

\* table j of the log was written with a filter block
Filtered(j) ==
  /\ Written_at(tl.indx.ext, 1, "index")[j] < Len(tl.indx.ext)
  /\ tl.indx.ext[Written_at(tl.indx.ext, 1, "index")[j] + 1].kind = "filter"

\* the filter block of table j as stored
FilterOf(j) == tl.indx.ext[Written_at(tl.indx.ext, 1, "index")[j] + 1].ents

\* C16: the filter block of every table a compaction wrote matches every
\* key that was added to that table
C16_FilterSound ==
  \A j \in 1..Len(tl.tabs) :
     Filtered(j) =>
       \A n \in 1..Len(tl.tabs[j].ents) :
          BloomKeyMayMatch(tl.tabs[j].ents[n].key, FilterOf(j))

\* two compactions have written a filter block, one of them for a table of
\* two different keys
C16_Witness ==
  /\ Len(tl.tabs) >= 2 /\ \A j \in 1..Len(tl.tabs) : Filtered(j)
  /\ \E j \in 1..Len(tl.tabs) :
        Cardinality({tl.tabs[j].ents[n].key : n \in 1..Len(tl.tabs[j].ents)}) >= 2

\* the keys passed to Add for table j, in the order of the calls
KeysOf(j) == [n \in 1..Len(tl.tabs[j].ents) |-> tl.tabs[j].ents[n].key]

\* C17: the handle of every table in the meta block has the first key added
\* to the table as smallest_key and the short successor of the last key
\* added as largest_key, and every key added lies between the two
C17_KeyBounds ==
  /\ Len(tl.meta_block) = Len(tl.tabs)
  /\ \A j \in 1..Len(tl.tabs) :
        /\ KeysOf(j) # <<>>
        /\ tl.meta_block[j].handle.smallest_key = KeysOf(j)[1]
        /\ tl.meta_block[j].handle.largest_key = FindShortSuccessor(KeysOf(j)[Len(KeysOf(j))])
        /\ \A n \in 1..Len(KeysOf(j)) :
              /\ KeyLeq(tl.meta_block[j].handle.smallest_key, KeysOf(j)[n])
              /\ KeyLeq(KeysOf(j)[n], tl.meta_block[j].handle.largest_key)

\* the meta block holds two tables, one of them of two different keys
C17_Witness ==
  /\ Len(tl.tabs) >= 2
  /\ \E j \in 1..Len(tl.tabs) : KeysOf(j)[1] # KeysOf(j)[Len(KeysOf(j))]


\* the index blocks built so far: the one of the open table and the ones
\* written to the index log
IndexBlocks ==
  {tl.index_block}
    \cup {tl.indx.ext[i].ents :
            i \in {n \in 1..Len(tl.indx.ext) : tl.indx.ext[n].kind = "index"}}

\* the keys of the data block that index entry e points at
BlockKeys(e) ==
  LET b == tl.data.ext[CHOOSE i \in BlockAt("data", e) : TRUE]
  IN [n \in 1..Len(b.ents) |-> b.ents[n].key]

\* index entry e names one data block of the data log, and its key is not
\* below any key of that block
Separates(e) ==
  /\ BlockAt("data", e) # {}
  /\ \A i \in BlockAt("data", e) : tl.data.ext[i].kind = "data"
  /\ BlockKeys(e) # <<>>
  /\ KeyLeq(BlockKeys(e)[Len(BlockKeys(e))], e.key)

\* C18 as stated, for calls that fail no assertion of the table logger: the
\* separator of block i is at or above the last key of block i, strictly
\* below the first key of block i+1, and the entry maps to the handle of
\* block i
C18_StrictSeparator ==
  tl.viol = {} =>
    \A idx \in IndexBlocks : \A i \in 1..Len(idx) :
       /\ Separates(idx[i])
       /\ i < Len(idx) => KeyLess(idx[i].key, BlockKeys(idx[i + 1])[1])

\* C18: when no assertion of the table logger has failed, the separator of
\* block i is at or above the last key of block i and at or below the first key of block i+1, strictly below it when the two
\* keys differ, and the entry maps to the handle of block i
C18_Separator ==
  tl.viol = {} =>
    \A idx \in IndexBlocks : \A i \in 1..Len(idx) :
       /\ Separates(idx[i])
       /\ i < Len(idx) =>
            /\ KeyLeq(idx[i].key, BlockKeys(idx[i + 1])[1])
            /\ BlockKeys(idx[i])[Len(BlockKeys(idx[i]))] # BlockKeys(idx[i + 1])[1]
                 => KeyLess(idx[i].key, BlockKeys(idx[i + 1])[1])

\* one table has a block boundary with the same key on both sides and one
\* with different keys
C18_Witness ==
  \E idx \in IndexBlocks :
     /\ tl.viol = {}
     /\ Len(idx) >= 3
     /\ \E i \in 1..(Len(idx) - 1) :
           BlockKeys(idx[i])[Len(BlockKeys(idx[i]))] = BlockKeys(idx[i + 1])[1]
     /\ \E i \in 1..(Len(idx) - 1) :
           BlockKeys(idx[i])[Len(BlockKeys(idx[i]))] # BlockKeys(idx[i + 1])[1]


\* nothing on storage was changed or cut after the logs were written
Intact == rd.bad = {} /\ rd.cut = 0 /\ rd.icut = 0

\* C19: over intact logs a Read of a key that was never added returns OK
\* and leaves the destination empty
C19_UnwrittenKey ==
  (rd.ret.op = "read" /\ Intact /\ rd.ret.key \notin AddedKeys) =>
     rd.ret.st = OK /\ rd.ret.dst = <<>>

\* a Read of a key that was never added has returned, over two epochs, where
\* a table holds the key in its range and its filter block matches the key
C19_Witness ==
  /\ rd.ret.op = "read" /\ Intact /\ rd.ret.key \notin AddedKeys
  /\ rd.num_epoches >= 2
  /\ \E j \in 1..Len(tl.tabs) :
        /\ Filtered(j)
        /\ KeyLeq(tl.meta_block[j].handle.smallest_key, rd.ret.key)
        /\ KeyLeq(rd.ret.key, tl.meta_block[j].handle.largest_key)
        /\ BloomKeyMayMatch(rd.ret.key, FilterOf(j))


\* ReadBlock fails on the block of handle h
Damaged(log, h) == ReadBlock(log, h).st = Corruption

FilterHandle(h) == [offset |-> h.filter_offset, size |-> h.filter_size]

InRange(key, h) == ~KeyLess(key, h.smallest_key) /\ ~KeyLess(h.largest_key, key)

\* Fetch on the table of handle h reads its filter block, its index block
FilterTouched(key, h) == InRange(key, h) /\ h.filter_size # 0

IndexTouched(key, h) ==
  InRange(key, h) /\ (h.filter_size = 0 \/ KeyMayMatch(key, FilterHandle(h)))

\* Fetch on the table of handle h reads the data block of its index entry p:
\* no block before it, from the seek position on, ended the search
DataTouched(key, h, p) ==
  /\ IndexTouched(key, h) /\ ~Damaged("indx", h)
  /\ LET ients == ReadBlock("indx", h).ents
     IN /\ p \in SeekFrom(ients, 1, key)..Len(ients)
        /\ \A q \in SeekFrom(ients, 1, key)..(p - 1) :
              /\ FetchBlock(key, ients[q]).st = OK
              /\ ~FetchBlock(key, ients[q]).exhausted

\* Get(key, epoch) gets as far as entry n of the epoch index
TableReached(key, epoch, n) ==
  /\ rd.epochs[n].key[1] = epoch
  /\ \A m \in 1..Len(rd.epochs) :
        (rd.epochs[m].key[1] = epoch /\ rd.epochs[m].key[2] < rd.epochs[n].key[2]) =>
           /\ FetchTable(key, rd.epochs[m].handle).st = OK
           /\ opt.unique_keys => FetchTable(key, rd.epochs[m].handle).values = <<>>
  /\ \A t \in 0..(rd.epochs[n].key[2] - 1) : TablesAt(rd.epochs, epoch, t) # {}

\* Get(key, epoch) calls ReadBlock on a block of one of the kinds that fails
TouchedDamaged(key, epoch, kinds) ==
  \E n \in 1..Len(rd.epochs) :
     /\ TableReached(key, epoch, n)
     /\ \/ /\ "filter" \in kinds /\ FilterTouched(key, rd.epochs[n].handle)
           /\ Damaged("indx", FilterHandle(rd.epochs[n].handle))
        \/ /\ "index" \in kinds /\ IndexTouched(key, rd.epochs[n].handle)
           /\ Damaged("indx", rd.epochs[n].handle)
        \/ /\ "data" \in kinds
           /\ \E p \in 1..Len(ReadBlock("indx", rd.epochs[n].handle).ents) :
                 /\ DataTouched(key, rd.epochs[n].handle, p)
                 /\ Damaged("data", ReadBlock("indx", rd.epochs[n].handle).ents[p])

\* the bytes of the values stored in the data blocks ReadBlock fails on
DamagedValues ==
  UNION {UNION {{tl.data.ext[i].ents[n].value[b] :
                   b \in 1..Len(tl.data.ext[i].ents[n].value)} :
                n \in 1..Len(tl.data.ext[i].ents)} :
         i \in {j \in DataBlocks :
                  Damaged("data", [offset |-> tl.data.ext[j].off,
                                   size |-> tl.data.ext[j].size])}}

\* a Read has returned one of whose Gets called ReadBlock on a failing block
\* of one of the kinds
ReadTouched(kinds) ==
  /\ rd.ret.op = "read" /\ ~opt.skip_checksums /\ opt.verify_checksums
  /\ \E epoch \in rd.ret.ran : TouchedDamaged(rd.ret.key, epoch, kinds)

\* C20 as stated: a Read whose Get called ReadBlock on a block with a
\* changed byte or a short read returns Corruption, whatever the block
C20_AnyBlock ==
  ReadTouched({"filter", "index", "data"}) => rd.ret.st = Corruption

\* C20: ReadBlock fails with Corruption on every block with a changed byte;
\* a Read whose Get called ReadBlock on a failing index or data block returns
\* Corruption when it returns, and no Read delivers a value of a failing
\* data block
C20_FetchedBlock ==
  /\ \A d \in rd.bad :
        Damaged(d[1], [offset |-> tl[d[1]].ext[d[2]].off, size |-> tl[d[1]].ext[d[2]].size])
  /\ ReadTouched({"index", "data"}) => rd.ret.st = Corruption
  /\ rd.ret.op = "read" =>
        \A i \in 1..Len(rd.ret.dst) : rd.ret.dst[i] \notin DamagedValues

\* a Read of a key stored in a data block with a changed byte has returned
\* after a Get of an earlier epoch delivered a value
C20_Witness ==
  /\ ReadTouched({"data"}) /\ rd.bad # {}
  /\ rd.ret.dst # <<>>


\* the last kFooterEncodeLength bytes of the index log are a footer
FooterDecodes ==
  /\ tl.indx.ext # <<>> /\ tl.indx.ext[Len(tl.indx.ext)].kind = "footer"
  /\ tl.indx.ext[Len(tl.indx.ext)].off = SourceSize("indx") - kFooterEncodeLength

\* the index log is too short, its end does not decode, or ReadBlock fails
\* on the root meta block
Unopenable ==
  \/ SourceSize("indx") < kFooterEncodeLength
  \/ ~FooterDecodes
  \/ Damaged("indx", tl.indx.ext[Len(tl.indx.ext)].ents)

\* C21: once Open has been called on an index log that is too short, whose
\* end does not decode or whose root meta block cannot be read, no reader
\* exists and no reference is held; a log that Finish completed and that then
\* lost its last byte fails with Corruption
C21_OpenFails ==
  rd.st # "closed" =>
     /\ Unopenable => rd.st = "failed" /\ rd.status # OK /\ rd.refs = 0
     /\ SourceSize("indx") < kFooterEncodeLength => rd.status = Corruption
     /\ (Finished /\ rd.icut = 1) => rd.st = "failed" /\ rd.status = Corruption
     /\ rd.st = "open" <=> rd.refs = 2

\* Open has failed on the index log of a directory of two tables that lost
\* its last byte after Finish
C21_Witness ==
  /\ rd.st = "failed" /\ Finished /\ rd.icut = 1 /\ Len(tl.tabs) >= 2


\* the bytes of the extents a sink has accepted
RECURSIVE ExtentBytes(_)
ExtentBytes(ext) == IF ext = <<>> THEN 0 ELSE Head(ext).fsize + ExtentBytes(Tail(ext))

\* an Lwrite of n bytes on sink moves the offset by n when it returns OK and
\* leaves it alone otherwise; on a closed sink it does not return OK
LwriteMoves(sink, n) ==
  /\ Lwrite(sink, <<Extent(Ltell(sink), n, n, "pad", <<>>)>>, n).st = OK =>
        Ltell(Lwrite(sink, <<Extent(Ltell(sink), n, n, "pad", <<>>)>>, n).sink) = Ltell(sink) + n
  /\ Lwrite(sink, <<Extent(Ltell(sink), n, n, "pad", <<>>)>>, n).st # OK =>
        Ltell(Lwrite(sink, <<Extent(Ltell(sink), n, n, "pad", <<>>)>>, n).sink) = Ltell(sink)
  /\ sink.closed => Lwrite(sink, <<Extent(Ltell(sink), n, n, "pad", <<>>)>>, n).st # OK

\* C22: the offset of either sink never decreases, is the number of bytes of
\* the writes that returned OK, stays where it is over a failed write and
\* on a closed sink, and the next Lwrite of any size moves it by that size
\* exactly when it returns OK
C22_LogicalOffset ==
  /\ [](\A log \in {"data", "indx"} :
          /\ Ltell(tl[log]) = ExtentBytes(tl[log].ext)
          /\ \A n \in {0, 1, opt.block_size} : LwriteMoves(tl[log], n))
  /\ [][\A log \in {"data", "indx"} :
          /\ Ltell(tl'[log]) >= Ltell(tl[log])
          /\ (tl[log].fail_in = 0 /\ tl'[log].fail_in = -1) => Ltell(tl'[log]) = Ltell(tl[log])
          /\ tl[log].closed => Ltell(tl'[log]) = Ltell(tl[log])]_vars

\* a block was written to the data log, the logs were closed, and a later
\* write of the table logger was refused
C22_Witness ==
  /\ tl.data.closed /\ tl.status = "AssertionFailed" /\ tl.viol = {}
  /\ Ltell(tl.data) > 0
  /\ \E i \in 1..Len(tl.data.ext) : tl.data.ext[i].kind = "data"


\* producer p has just returned from a Flush with dry_run set
DryRunReturns(p) ==
  /\ hist'.ret[p] # hist.ret[p]
  /\ hist'.ret[p].op = "flush" /\ hist'.ret[p].fo.dry_run

\* C23: a Flush with dry_run set never sleeps on the condition variable and
\* never reaches Prepare; the step in which it returns changes nothing of
\* the directory logger, its buffers, the table logger or the pool, and
\* returns BufferFull when imm_buf_ is set and the table logger's status
\* otherwise
C23_DryRun ==
  /\ [](\A p \in Producers : ~(loc[p].op = "flush" /\ loc[p].fo.dry_run))
  /\ [][\A p \in Producers :
          DryRunReturns(p) =>
             /\ pc[p] = "idle" /\ pc' = pc
             /\ UNCHANGED <<dl, bufs, tl, pool, waiting>>
             /\ hist'.ret[p].st = IF dl.imm_buf # NULL THEN "BufferFull" ELSE tl.status]_vars

\* a dry run has returned BufferFull while a compaction was running
C23_Witness ==
  \E p \in Producers :
     /\ hist.ret[p].op = "flush" /\ hist.ret[p].fo.dry_run
     /\ hist.ret[p].st = "BufferFull"
     /\ dl.imm_buf # NULL /\ dl.has_bg_compaction


\* producer p returns from Add in this step
AddReturns(p) ==
  /\ pc[p] = "prepare" /\ pc'[p] = "idle" /\ loc[p].op = "add"
  /\ hist'.ret[p].op = "add"

\* what every Add does when it returns: without OK nothing changes, with OK
\* the pair is appended to the buffer that is mem_buf_ and to no other
AddInserts(p) ==
  /\ hist'.ret[p].st # OK => bufs' = bufs /\ dl' = dl
  /\ hist'.ret[p].st = OK =>
        /\ dl'.mem_buf = dl.mem_buf
        /\ bufs' = [bufs EXCEPT
                      ![dl'.mem_buf] = WriteBufferAdd(@, hist'.ret[p].key, hist'.ret[p].value)]

\* C24 as stated: an Add that does not return OK has inserted nothing and
\* has not switched the buffers; an Add that returns OK has inserted the
\* pair into the buffer that is mem_buf_ when it returns, and there only
C24_AddFrame ==
  [][\A p \in Producers :
       AddReturns(p) =>
          /\ AddInserts(p)
          /\ hist'.ret[p].st # OK => ~hist'.ret[p].switched]_vars

\* C24: as above, for an Add that returns BufferFull or a status that the
\* table logger had when Add was called
C24_AddFrameLatched ==
  [][\A p \in Producers :
       AddReturns(p) =>
          /\ AddInserts(p)
          /\ (hist'.ret[p].st = "BufferFull" \/ hist'.ret[p].err # OK)
                => ~hist'.ret[p].switched]_vars

\* both kinds of refused Add have returned, and an Add that switched the
\* buffers has returned OK
C24_Witness ==
  /\ hist.ret["p1"].op = "add" /\ hist.ret["p1"].st = OK /\ hist.ret["p1"].switched
  /\ hist.ret["p2"].op = "add" /\ hist.ret["p2"].st # OK /\ ~hist.ret["p2"].switched


\* MakeEpoch can be called and its EndTable goes through
EndTableOK == ok(tl) /\ ~tl.finished /\ ok(EndTable(tl, NoFilter))

\* what MakeEpoch leaves alone in an epoch without a table
EpochFrame(s) == <<s.num_epochs, s.num_tables, s.data, s.indx, s.meta_block>>

\* C25: when the epoch has no table after the EndTable of MakeEpoch, MakeEpoch
\* leaves num_epochs_, both sinks and the meta block as they are, and when
\* no key was added either it changes nothing at all; when the epoch has a
\* table and the epoch limit is not reached, num_epochs_ goes up by exactly
\* one and num_tables_ becomes 0
C25_MakeEpoch ==
  EndTableOK =>
     /\ EndTable(tl, NoFilter).num_tables = 0 =>
           /\ EpochFrame(MakeEpoch(tl)) = EpochFrame(tl)
           /\ tl.cur = <<>> => MakeEpoch(tl) = tl
     /\ (EndTable(tl, NoFilter).num_tables > 0 /\ tl.num_epochs < kMaxEpoches) =>
           /\ MakeEpoch(tl).num_epochs = tl.num_epochs + 1
           /\ MakeEpoch(tl).num_tables = 0
           /\ ok(MakeEpoch(tl))

\* C25, its last sentence as stated: a MakeEpoch that finds nothing added
\* since the last table (the epoch flush of an empty memtable) leaves
\* num_epochs_ as it is
C25_EmptyFlush ==
  (EndTableOK /\ tl.cur = <<>>) => MakeEpoch(tl).num_epochs = tl.num_epochs

\* MakeEpoch has been called on an epoch without a table and on an epoch
\* with one, and a key of the next table has been added
C25_Witness ==
  /\ ok(tl) /\ hist.empty_epoch /\ tl.num_epochs = 1 /\ Len(tl.tabs) = 1
  /\ tl.cur # <<>>

(***************************************************************************)
(* The keys of the root meta block.                                        *)
(***************************************************************************)
EpochKeyLess(a, b) == a[1] < b[1] \/ (a[1] = b[1] /\ a[2] < b[2])

\* the table ids the meta block holds under one epoch
TablesOfEpoch(epoch) ==
  {tl.meta_block[i].key[2] : i \in {j \in 1..Len(tl.meta_block) : tl.meta_block[j].key[1] = epoch}}

\* the table ids the loop of Dir::Get visits in one epoch: from 0 up to the
\* first EpochKey the meta block does not hold
VisitedTables(epoch) ==
  {t \in 0..Len(tl.meta_block) : \A u \in 0..t : u \in TablesOfEpoch(epoch)}

\* C26: the keys of the root meta block are strictly increasing in the order
\* of (epoch, table); every epoch below num_epochs_ holds the table ids
\* 0..n-1 with n >= 1, the open epoch holds 0..num_tables_-1, no entry lies
\* beyond the open epoch, and so the loop of Dir::Get reaches every table
C26_EpochKeys ==
  /\ \A i \in 1..Len(tl.meta_block) - 1 :
        EpochKeyLess(tl.meta_block[i].key, tl.meta_block[i + 1].key)
  /\ \A e \in 0..tl.num_epochs - 1 :
        \E n \in 1..kMaxTablesPerEpoch : TablesOfEpoch(e) = 0..n - 1
  /\ TablesOfEpoch(tl.num_epochs) = 0..tl.num_tables - 1
  /\ \A i \in 1..Len(tl.meta_block) : tl.meta_block[i].key[1] <= tl.num_epochs
  /\ \A e \in 0..tl.num_epochs : VisitedTables(e) = TablesOfEpoch(e)

C26_Witness ==
  /\ ok(tl) /\ tl.num_epochs = 1
  /\ Len(tl.meta_block) = 2
  /\ TablesOfEpoch(0) = {0, 1}

(***************************************************************************)
(* The Gets of one Read.                                                   *)
(***************************************************************************)
\* C27: a Read that returns OK has run exactly one Get on each epoch of the
\* directory, whether the Gets ran inline or on the reader pool
C27_OneGetPerEpoch ==
  (rd.ret.op = "read" /\ rd.ret.st = OK) =>
     \A e \in 0..(rd.num_epoches - 1) : rd.ret.gets[e] = 1

(***************************************************************************)
(* The entries one compaction hands to the table logger.                   *)
(***************************************************************************)
\* how often entry e occurs in the sequence entries
Occurs(e, entries) == Cardinality({i \in 1..Len(entries) : entries[i] = e})

SameEntries(a, b) ==
  /\ Len(a) = Len(b)
  /\ \A i \in 1..Len(a) : Occurs(a[i], a) = Occurs(a[i], b)

\* thread t ends its compaction: DoCompaction resets the immutable buffer
EndsCompaction(t) == pc[t] = "compact_lock" /\ pc'[t] # "compact_lock"

\* C28: the keys a compaction passes to TableLogger::Add are non-decreasing,
\* the assertion on the key order of TableLogger::Add does not fail, and
\* when the table logger is OK the entries the immutable buffer holds when
\* it is reset are the entries that were passed, each once
C28_SortInvariant ==
  /\ []("Add:order" \notin tl.viol)
  /\ [](\A t \in Threads : \A i \in 1..(Len(loc[t].passed) - 1) :
           ~KeyLess(loc[t].passed[i + 1].key, loc[t].passed[i].key))
  /\ [][\A t \in Threads :
         (EndsCompaction(t) /\ ok(tl) /\ dl.imm_buf # NULL) =>
            SameEntries(bufs[dl.imm_buf].entries, loc[t].passed)]_vars

\* the same with the compaction on the pool
C28_SortInvariantPool ==
  /\ []("Add:order" \notin tl.viol)
  /\ [](\A t \in Threads : \A i \in 1..(Len(loc[t].passed) - 1) :
           ~KeyLess(loc[t].passed[i + 1].key, loc[t].passed[i].key))
  /\ [][\A t \in Threads :
         (EndsCompaction(t) /\ ok(tl) /\ dl.imm_buf # NULL /\ opt.pool) =>
            SameEntries(bufs[dl.imm_buf].entries, loc[t].passed)]_vars

(***************************************************************************)
(* The caps on tables per epoch and on epochs.                             *)
(***************************************************************************)
\* EndTable with filter bf on a table logger at the table cap
EndTableAtCap(bf) ==
  /\ EndTable(tl, bf).status = "AssertionFailed"
  /\ EndTable(tl, bf).meta_block = tl.meta_block
  /\ EndTable(tl, bf).num_tables = tl.num_tables

\* C29: num_tables_ never exceeds kMaxTablesPerEpoch and num_epochs_ never
\* exceeds kMaxEpoches; an EndTable that has entries to close at the table
\* cap latches AssertionFailed and adds no meta entry; a MakeEpoch that
\* has a table to close at the epoch cap latches AssertionFailed and
\* leaves num_epochs_ as it is
C29_Caps ==
  /\ tl.num_tables <= kMaxTablesPerEpoch
  /\ tl.num_epochs <= kMaxEpoches
  /\ (ok(tl) /\ tl.num_tables = kMaxTablesPerEpoch /\ tl.cur # <<>>) =>
        \A bf \in {NoFilter, AddAllKeys(BloomReset(8, 8), tl.cur)} : EndTableAtCap(bf)
  /\ (EndTableOK /\ tl.num_epochs = kMaxEpoches /\ EndTable(tl, NoFilter).num_tables > 0) =>
        /\ MakeEpoch(tl).status = "AssertionFailed"
        /\ MakeEpoch(tl).num_epochs = tl.num_epochs

C29_Witness ==
  /\ tl.status = "AssertionFailed" /\ tl.viol = {}
  /\ tl.num_tables = kMaxTablesPerEpoch
  /\ Len(tl.meta_block) = kMaxTablesPerEpoch
  /\ tl.cur # <<>>

(***************************************************************************)
(* The filter check of the reader.                                         *)
(***************************************************************************)
\* filters as stored with fewer than 2 bytes (none, or the byte k alone)
\* and filters whose last byte is above 30
ShortFilters == {[on |-> TRUE, bits |-> {}, k |-> k, bytes |-> b] : k \in {0, 1, 30}, b \in {-1, 0}}

ReservedFilters ==
  {[on |-> TRUE, bits |-> bits, k |-> k, bytes |-> 1] : k \in {31, 255}, bits \in SUBSET (0..2)}

\* Fetch leaves the table of handle h because of its filter
SkippedByFilter(key, h) == FilterTouched(key, h) /\ ~KeyMayMatch(key, FilterHandle(h))

\* some bit BloomKeyMayMatch probes for key is clear in the filter as stored
ProbedBitClear(key, input) ==
  \E b \in BloomBits(key, input.k, 8 * input.bytes) : b \notin input.bits

\* C30: KeyMayMatch is true on a filter block that cannot be read;
\* BloomKeyMayMatch is true on a filter of fewer than 2 bytes and on one
\* whose stored k is above 30; Fetch skips a table because of its filter
\* only when the filter block was read and a probed bit is clear in it, and
\* never a table that holds the key
C30_FilterCheck ==
  /\ \A key \in opt.keys :
        /\ \A input \in ShortFilters \cup ReservedFilters : BloomKeyMayMatch(key, input)
        /\ KeyMayMatchRead(key, [st |-> Corruption, ents |-> <<>>])
  /\ rd.st = "open" =>
        \A n \in 1..Len(rd.epochs) : \A key \in opt.keys :
           /\ (FilterTouched(key, rd.epochs[n].handle)
                  /\ Damaged("indx", FilterHandle(rd.epochs[n].handle))) =>
                 KeyMayMatch(key, FilterHandle(rd.epochs[n].handle))
           /\ SkippedByFilter(key, rd.epochs[n].handle) =>
                 /\ ReadBlock("indx", FilterHandle(rd.epochs[n].handle)).st = OK
                 /\ ProbedBitClear(key, ReadBlock("indx", FilterHandle(rd.epochs[n].handle)).ents)
                 /\ (ok(tl) /\ tl.viol = {} /\ n <= Len(tl.tabs)) =>
                       \A i \in 1..Len(tl.tabs[n].ents) : tl.tabs[n].ents[i].key # key

\* a Read has found its key in a table whose filter block is damaged
C30_Witness ==
  /\ rd.ret.op = "read" /\ rd.ret.st = OK /\ rd.ret.dst # <<>>
  /\ \E n \in 1..Len(rd.epochs) :
        /\ FilterTouched(rd.ret.key, rd.epochs[n].handle)
        /\ Damaged("indx", FilterHandle(rd.epochs[n].handle))

(***************************************************************************)
(* The probe count of a filter block.                                      *)
(***************************************************************************)
\* C31 as stated: the k stored with the filter is round(bits_per_key * ln 2)
\* kept within 1..30
C31_ProbeCountRounded ==
  dl.filter.on =>
     dl.filter.k = Max(1, Min(30, (opt.bf_bits_per_key * 693147 + 500000) \div 1000000))

\* C31: the k stored with the filter is bits_per_key * 0.69 rounded down and
\* kept within 1..30: the largest k of 1..30 with k <= 0.69 * bits_per_key,
\* and 1 when there is none; it is never above the rounded product of
\* bits_per_key and ln 2 and at most one below it
C31_ProbeCount ==
  dl.filter.on =>
     /\ dl.filter.k \in 1..30
     /\ dl.filter.k = 1 \/ 100 * dl.filter.k <= 69 * opt.bf_bits_per_key
     /\ dl.filter.k = 30 \/ 100 * (dl.filter.k + 1) > 69 * opt.bf_bits_per_key
     /\ dl.filter.k <= Max(1, Min(30, (opt.bf_bits_per_key * 693147 + 500000) \div 1000000))
     /\ dl.filter.k + 1 >= Max(1, Min(30, (opt.bf_bits_per_key * 693147 + 500000) \div 1000000))

\* keys were added to a filter built with 8 bits per key: 5 probes, where
\* the rounded product gives 6
C31_Witness ==
  /\ dl.filter.on /\ opt.bf_bits_per_key = 8 /\ dl.filter.k = 5
  /\ dl.filter.bits # {} /\ nops = 2

(***************************************************************************)
(* The sizes of the DirLogger.                                             *)
(***************************************************************************)
\* C32: table_buffer has not wrapped around, and the entries of one table
\* with their share of the filter and of the two write buffers fit in it
C32_SizingFits ==
  dl.size.built =>
     /\ ~dl.size.wrapped
     /\ dl.size.table_buffer = PartitionShare(opt) - opt.block_buffer
     /\ dl.size.entries_per_tb * (opt.bf_bits_per_key + 2 * 8 * BytesPerEntry(opt))
           <= 8 * dl.size.table_buffer

\* the constructor's rounding: fewer than one entry beyond the budget
C32_SizingCeil ==
  (dl.size.built /\ ~dl.size.wrapped) =>
     /\ dl.size.entries_per_tb * dl.size.total_bits_per_entry >= 8 * dl.size.table_buffer
     /\ dl.size.entries_per_tb * dl.size.total_bits_per_entry
           < 8 * dl.size.table_buffer + dl.size.total_bits_per_entry

(***************************************************************************)
(* Blocking calls return.                                                  *)
(***************************************************************************)
\* C33: with blocking producers and a compaction pool, every Add and every
\* Flush that was called returns
C33_CallsReturn == \A p \in Producers : (pc[p] # "idle") ~> (pc[p] = "idle")

\* a producer that waited for imm_buf_ to clear has been woken by the
\* SignalAll of a compaction that ended in error
C33_Witness ==
  \E p \in Producers :
     /\ pc[p] \in {"prepare_wait", "flush_imm_wait"} /\ p \notin waiting
     /\ ~ok(tl) /\ dl.imm_buf = NULL /\ dl.num_flush_completed > 0

(***************************************************************************)
(* Partitions on one data sink.                                            *)
(***************************************************************************)
\* the pairs the table logger of partition i has accepted
AcceptedBy(i) == {sh.tl[i].cur[n] : n \in 1..Len(sh.tl[i].cur)}

\* the data log holds, at the place handle e names, a block of partition i
BlockOfAt(i, e) ==
  \E k \in 1..Len(sh.data.ext) :
     /\ sh.data.ext[k].kind = "data"
     /\ sh.data.ext[k].off = e.offset /\ sh.data.ext[k].size = e.size
     /\ sh.data.ext[k].ents # <<>>
     /\ \A n \in 1..Len(sh.data.ext[k].ents) : sh.data.ext[k].ents[n] \in AcceptedBy(i)

\* C34: every Commit wrote its block buffer at the offset it had read with
\* Ltell, and every handle in the index block of a partition names the
\* place in the shared data log where a block of that partition lies
C34_SharedSink ==
  /\ \A c \in sh.commits : c.told = c.at
  /\ \A i \in Partitions : \A n \in 1..Len(sh.tl[i].index_block) :
        BlockOfAt(i, sh.tl[i].index_block[n])

\* one partition is between its Ltell and its Lwrite while the other is at
\* the Lock of its Commit, and the log already holds a block
C34_Witness ==
  /\ sh.pc["a"] = "commit" /\ sh.pc["b"] = "told"
  /\ sh.commits # {} /\ Ltell(sh.data) > 0
  /\ Len(sh.tl["a"].index_block) > 0

(***************************************************************************)
(* What a waiting Flush returns.                                           *)
(***************************************************************************)
\* this step is the return of a Flush of p that was to wait for its
\* compaction, and the status returned is OK
FlushReturnsOK(p) ==
  /\ pc[p] # "idle" /\ pc'[p] = "idle"
  /\ hist'.ret[p].op = "flush" /\ hist'.ret[p].st = OK
  /\ ~hist'.ret[p].fo.dry_run /\ ~hist'.ret[p].fo.no_wait

\* C35: a Flush that waits for its compaction returns OK only when the
\* table logger is OK at the return
C35_FlushReportsError ==
  [][\A p \in Producers : FlushReturnsOK(p) => ok(tl)]_vars

\* the same with the compaction run inline by the caller
C35_FlushReportsErrorInline ==
  [][\A p \in Producers : (FlushReturnsOK(p) /\ ~opt.pool) => ok(tl)]_vars

(***************************************************************************)
(* The fields of the directory logger between calls.                       *)
(***************************************************************************)
\* imm_buf_ and has_bg_compaction_ go together, and the flags of imm_buf_
\* are clear without it
ImmConsistent ==
  /\ (dl.imm_buf # NULL) <=> dl.has_bg_compaction
  /\ dl.imm_buf = NULL => ~dl.imm_buf_is_epoch_flush /\ ~dl.imm_buf_is_final

\* a step that switches mem_buf_ switches to an empty, unfinished buffer
SwapsToFresh ==
  dl'.mem_buf # dl.mem_buf =>
    /\ bufs'[dl'.mem_buf].entries = <<>>
    /\ ~bufs'[dl'.mem_buf].finished

\* C36: with mu_ free the fields of the directory logger are consistent,
\* every swap makes an empty unfinished buffer the new mem_buf_, and no
\* assertion of DoCompaction, FinishAndSort or WriteBuffer::Add fails
C36_DirLoggerInvariants ==
  /\ [](mu = NULL => ImmConsistent)
  /\ [](dl.viol = {})
  /\ [][SwapsToFresh]_vars

\* the same with the compaction on the pool
C36_DirLoggerInvariantsPool ==
  /\ [](mu = NULL => ImmConsistent)
  /\ [](opt.pool => dl.viol = {})
  /\ [][opt.pool => SwapsToFresh]_vars

(***************************************************************************)
(* The table logger after Finish.                                          *)
(***************************************************************************)
\* the assertions !finished_ of the table logger
AfterFinish ==
  {"Add:finished", "EndTable:finished", "MakeEpoch:finished", "Finish:finished"}

\* C37: no call of the directory logger makes a compaction call Add,
\* EndTable, MakeEpoch or Finish on a table logger that has finished
C37_NoWriteAfterFinish == tl.viol \cap AfterFinish = {}

(***************************************************************************)
(* What Commit writes and resets.                                          *)
(***************************************************************************)
\* the pairs Add has accepted, over all tables
Accepted(s) ==
  {s.cur[n] : n \in 1..Len(s.cur)}
    \cup UNION {{s.tabs[j].ents[n] : n \in 1..Len(s.tabs[j].ents)} : j \in 1..Len(s.tabs)}

InSeq(e, seq) == \E n \in 1..Len(seq) : seq[n] = e

\* where pair e is: the block under construction, a finalized block in the
\* block buffer, a data block in the data log
Places(s, e) ==
  {<<"open", 0>> : x \in {y \in {0} : InSeq(e, s.open)}}
    \cup {<<"buffer", i>> : i \in {j \in 1..Len(s.blocks) : InSeq(e, s.blocks[j].ents)}}
    \cup {<<"log", k>> : k \in {j \in 1..Len(s.data.ext) :
                                  s.data.ext[j].kind = "data" /\ InSeq(e, s.data.ext[j].ents)}}

\* the Lwrite of a Commit took the bytes of an unfinished block with it
WrotePartial(s) == \E k \in 1..Len(s.data.ext) : s.data.ext[k].kind = "partial"

\* C38: as long as Commit is called by Add and EndTable only and the table
\* logger is OK, Commit has written finalized blocks only and every pair
\* Add accepted is in exactly one block
C38_CommitKeepsEntries ==
  (~hist.commits /\ ok(tl)) =>
     /\ ~WrotePartial(tl)
     /\ \A e \in Accepted(tl) : Cardinality(Places(tl, e)) = 1

(***************************************************************************)
(* The pending index entry and the two counters of uncommitted blocks.     *)
(***************************************************************************)
PendingCount(s) == IF s.pending_index_entry THEN 1 ELSE 0

\* Commit, called on s, goes on to its write
CommitWrites(s) == ok(s) /\ BufferStoreSize(s) # 0

\* what Commit expects of the state it is called on
CommitReady(s) ==
  /\ ~s.pending_index_entry
  /\ s.num_uncommitted_data = s.num_uncommitted_index
  /\ Len(s.uncommitted_indexes) = s.num_uncommitted_index
  /\ Len(s.blocks) = s.num_uncommitted_data

\* the data blocks of the table under construction that are in the data log
BlocksWritten(s) ==
  {k \in 1..Len(s.data.ext) :
     /\ s.data.ext[k].kind = "data"
     /\ \E n \in 1..Len(s.cur) : InSeq(s.cur[n], s.data.ext[k].ents)}

\* C39: with Commit called by Add and EndTable only, an OK table logger has
\* as many uncommitted data blocks as uncommitted index entries plus the
\* pending one, every Commit that writes is called without a pending entry
\* and with equal counters, the index block has one entry for each block
\* written, and the assertions of Commit and EndBlock hold
C39_PendingIndex ==
  ~hist.commits =>
    /\ ok(tl) => tl.num_uncommitted_data = tl.num_uncommitted_index + PendingCount(tl)
    /\ ok(tl) => Len(tl.index_block) = Cardinality(BlocksWritten(tl))
    /\ "Commit:uncommitted" \notin tl.viol
    /\ "EndBlock:pending_index_entry" \notin tl.viol
    /\ \A key \in opt.keys :
         (ok(tl) /\ ~tl.finished /\ InOrder(key) /\ NeedsCommit(AddUpToCommit(tl, key))) =>
            CommitReady(AddUpToCommit(tl, key))
    /\ (~tl.finished /\ CommitWrites(EndTableUpToCommit(tl))) =>
          CommitReady(EndTableUpToCommit(tl))

\* a Commit has written a block of this table, another block is in the
\* buffer with its index entry pending, and the next Add will call Commit
C39_Witness ==
  /\ ~hist.commits /\ ok(tl) /\ ~tl.finished
  /\ Len(tl.index_block) > 0 /\ tl.pending_index_entry
  /\ tl.num_uncommitted_data = 1 /\ tl.num_uncommitted_index = 0
  /\ \E key \in opt.keys : InOrder(key) /\ NeedsCommit(AddUpToCommit(tl, key))

=============================================================================
